---- MODULE Spec2Model ----
(***************************************************************************)
(* Fingerprint catalog and deduplication engine of music_dupes.            *)
(*                                                                         *)
(* The repository holds several generations of the same library manager.  *)
(* The generations modelled here are:                                      *)
(*   "Ref"  refactored_music_management.py  (path index, is_duplicate)     *)
(*   "A03"  A03_library_management.py       (path index, is_duplicate)     *)
(*   "A06"  A06_library_management.py       (fuzzy + AcoustID dedup)       *)
(*   "A10"  A10_library_management.py       (fingerprint history)          *)
(*   "A11"  A11_library_management.py       (album-scoped dedup, fan-out)  *)
(* The generation is fixed by Init (variable variant); every handler is    *)
(* translated from the code of that generation.                            *)
(***************************************************************************)
EXTENDS Integers, Sequences, FiniteSets, TLC

VARIABLES
    variant,    \* which generation of the program is installed
    dry_run,    \* Config.DRY_RUN / self.dry_run
    root,       \* state of the media volume: "mounted", "missing", "emptydir"
    fs,         \* files on the volume: path -> [fp, score, mtime]
    schema,     \* TRUE once the catalog tables exist in the database file
    db,         \* committed (durable) catalog
    cur,        \* catalog as seen by the open connection (pending writes)
    commits,    \* snapshots made durable by the last handler, in order
    moves,      \* <<op, src, dst>> file operations done by the last handler
    last,       \* the file handled last and what was decided for it
    phase,      \* "down" (process not running) or "run" (scan loop)
    todo,       \* scan list still to be processed in this run
    runs,       \* number of completed runs
    prev,       \* committed catalog at the end of the previous run
    steady,     \* TRUE while nothing outside the engine (files, volume, mode,
                \* answers) changed since then
    dropped     \* number of files put into the music folder so far

vars == <<variant, dry_run, root, fs, schema, db, cur, commits, moves, last,
          phase, todo, runs, prev, steady, dropped>>

----------------------------------------------------------------------------
(* Bounds of the model *)

MaxFiles == 2      \* files dropped into the music folder
MaxRuns == 2       \* runs of the engine
MaxScore == 2      \* distinct quality scores of the dropped files
MaxMtime == 3      \* modification stamps a file goes through
MaxKeys == 2       \* keys pressed at one duplicate prompt
MaxLen == 18       \* length of a fingerprint handed to the chunking function
MaxChunk == 3      \* configured chunk sizes tried (BLOCK_SIZE / block_size)
MaxFpLen == 4      \* length of the fingerprints whose ratio is taken

(* Program constants *)

BLOCK_SIZE == 16
SIMILARITY_AUTO == 98          \* 0.98, in hundredths
API_AUTO_SELECT == 98          \* top_match["similarity"] >= 0.98

Variants == {"Ref", "A03", "A06", "A10", "A11"}

NULL == "NULL"          \* SQL NULL / Python None in a text column
NoNum == 0 - 1          \* ... in a numeric column
NoFp == <<>>            \* ... in the fingerprint column
NoPath == <<>>          \* None returned for a path

----------------------------------------------------------------------------
(* Sequences helpers *)

RECURSIVE SumSeq(_)
SumSeq(s) == IF s = <<>> THEN 0 ELSE Head(s) + SumSeq(Tail(s))

Range(s) == {s[i] : i \in DOMAIN s}

Min(S) == CHOOSE x \in S : \A y \in S : x <= y

\* s[lo..hi) in Python's slice notation, 0-based, clipped at len(s)
Slice(s, lo, hi) ==
    LET h == IF hi > Len(s) THEN Len(s) ELSE hi
    IN  IF lo >= h THEN <<>> ELSE [i \in 1..(h - lo) |-> s[lo + i]]

Rep(c, n) == [i \in 1..n |-> c]

----------------------------------------------------------------------------
(* Fingerprints: opaque strings, modelled as sequences of characters.      *)

FA == Rep("a", 20)                       \* a recording
FB == Rep("a", 19) \o <<"b">>            \* the same recording, re-encoded
FC == Rep("c", 20)                       \* another recording
FD == Rep("a", 16) \o Rep("d", 4)        \* shares one chunk with FA only

Fingerprints == {FA, FB, FC, FD}

\* three takes of one recording unknown to the metadata service: GX and GB
\* are 50/51 alike, GX and GA 48/50, GA and GB 48/51
GX == Rep("a", 25)
GA == Rep("a", 24) \o <<"b">>
GB == Rep("a", 25) \o <<"e">>

Takes == <<GA, GB, GX>>

\* a recording for which the call to the metadata service raises
FE == Rep("e", 20)

\* another encoding of the recording of FA that shares no chunk with it
FG == Rep("g", 20)

\* max number of chunks kept by _get_blocks: [:8] in Ref and A03, [:16] later
MaxBlocks(v) == IF v \in {"Ref", "A03"} THEN 8 ELSE 16

\* the same comprehension with the trailing [:cap] left out
get_blocks_uncapped(v, fingerprint, size) ==
    [k \in 1..((Len(fingerprint) + size - 1) \div size) |->
        Slice(fingerprint, (k - 1) * size, k * size)]

\* [fingerprint[i:i+B] for i in range(0, len(fingerprint), B)][:cap], B being
\* the configured chunk size
get_blocks_sized(v, fingerprint, size) ==
    LET n == (Len(fingerprint) + size - 1) \div size
        all == [k \in 1..n |->
                  Slice(fingerprint, (k - 1) * size, k * size)]
    IN  Slice(all, 0, MaxBlocks(v))

get_blocks(v, fingerprint) == get_blocks_sized(v, fingerprint, BLOCK_SIZE)

----------------------------------------------------------------------------
(* difflib.SequenceMatcher(None, a, b).ratio(), as hundredths comparisons.  *)
(* Indices are 1-based and inclusive here.                                 *)

RECURSIVE MatchLen(_, _, _, _, _, _)
MatchLen(a, b, i, j, ahi, bhi) ==
    IF i > ahi \/ j > bhi THEN 0
    ELSE IF a[i] # b[j] THEN 0
    ELSE 1 + MatchLen(a, b, i + 1, j + 1, ahi, bhi)

\* find_longest_match: the longest block, earliest in a, then earliest in b
find_longest_match(a, b, alo, ahi, blo, bhi) ==
    LET P == (alo..ahi) \X (blo..bhi)
        L == [p \in P |-> MatchLen(a, b, p[1], p[2], ahi, bhi)]
        k == CHOOSE m \in {L[p] : p \in P} : \A p \in P : L[p] <= m
        i == Min({p[1] : p \in {q \in P : L[q] = k}})
        j == Min({p[2] : p \in {q \in P : L[q] = k /\ q[1] = i}})
    IN  <<i, j, k>>

\* get_matching_blocks: total size of the matching blocks
RECURSIVE matching_size(_, _, _, _, _, _)
matching_size(a, b, alo, ahi, blo, bhi) ==
    IF alo > ahi \/ blo > bhi THEN 0
    ELSE LET m == find_longest_match(a, b, alo, ahi, blo, bhi)
             i == m[1]
             j == m[2]
             k == m[3]
         IN  IF k = 0 THEN 0
             ELSE k + matching_size(a, b, alo, i - 1, blo, j - 1)
                    + matching_size(a, b, i + k, ahi, j + k, bhi)

\* ratio() = 2.0 * M / T, kept as the pair <<2*M, T>>; 1.0 when T = 0
ratio(a, b) ==
    LET T == Len(a) + Len(b)
    IN  IF T = 0 THEN <<1, 1>>
        ELSE <<2 * matching_size(a, b, 1, Len(a), 1, Len(b)), T>>

\* the ratios of the fingerprints of this model, computed once
RatioTable ==
    {<<a, b, ratio(a, b)>> : a \in Fingerprints, b \in Fingerprints}
        \cup {<<a, b, ratio(a, b)>> : a \in Range(Takes), b \in Range(Takes)}
        \cup {<<FE, FE, ratio(FE, FE)>>}
        \cup {<<a, b, ratio(a, b)>> : a \in {FA, FG}, b \in {FA, FG}}

Ratio(a, b) == (CHOOSE t \in RatioTable : t[1] = a /\ t[2] = b)[3]

\* r >= h / 100
RatioGE(r, h) == 100 * r[1] >= h * r[2]

\* r1 > r2
RatioGT(r1, r2) == r1[1] * r2[2] > r2[1] * r1[2]

ZeroRatio == <<0, 1>>

\* SIMILARITY_ASK: 0.95 in Ref and A03, 0.85 in A06..A11
SIMILARITY_ASK(v) == IF v \in {"Ref", "A03"} THEN 95 ELSE 85

----------------------------------------------------------------------------
(* The external metadata service (acoustid.lookup), a fixed function of   *)
(* the fingerprint.  cands is the list built by _get_candidates, already   *)
(* sorted by similarity; sim is in hundredths.                             *)

Cand(rel, sim, meta) == [release |-> rel, sim |-> sim, meta |-> meta]

Lookup(fp) ==
    IF fp \in {FA, FG} THEN [ok |-> TRUE, id |-> "id1", title |-> "T1",
                     cands |-> <<Cand("L1", 99, "m1")>>]
    ELSE IF fp = FB THEN [ok |-> TRUE, id |-> "id1", title |-> "T1",
                     cands |-> <<Cand("L1", 90, "m2"), Cand("L2", 90, "m2")>>]
    ELSE IF fp = FC THEN [ok |-> TRUE, id |-> "id2", title |-> "T2",
                     cands |-> <<Cand("L2", 99, "m1")>>]
    ELSE [ok |-> FALSE, id |-> NULL, title |-> NULL, cands |-> <<>>]

----------------------------------------------------------------------------
(* Paths: <<dir, album, stem, n, m>>.  dir "in" is the music folder as found, *)
(* "lib" the organised layout (Artist/Album/Title), "dup" the quarantine   *)
(* folder; n is the collision counter appended to the name (0: none).      *)

InPath(k) == <<"in", "", k, 0, 0>>

\* <<dir, album, stem, n, m>>: m is the counter appended in quarantine, where
\* a file keeps its base name (stem and n) and loses its album folder
DupPath(p, m) == <<"dup", "", p[3], p[4], m>>

LibPath(album, title, n) == <<"lib", album, title, n, 0>>

Dir(p) == p[1]

\* os.path.exists / Path.exists on the media volume
Exists(w, p) == w.root = "mounted" /\ p \in DOMAIN w.fs

\* the collision loop: counter 1, 2, ... until the name is free
Bump(p) == IF Dir(p) = "dup" THEN [p EXCEPT ![5] = @ + 1]
           ELSE [p EXCEPT ![4] = @ + 1]

\* get_safe_path(target_path) of Ref and A03: _01, _02, ... until free
RECURSIVE get_safe_path(_, _)
get_safe_path(w, target) ==
    IF Exists(w, target) THEN get_safe_path(w, Bump(target)) ELSE target

\* paths scanned by os.walk(music_folder): Ref and A03 organise inside the
\* music folder, A06..A11 organise into a separate destination folder
Scanned(v, p) ==
    IF v \in {"Ref", "A03"} THEN Dir(p) \in {"in", "lib"} ELSE Dir(p) = "in"

----------------------------------------------------------------------------
(* Function helpers *)

Drop(f, x) == [y \in DOMAIN f \ {x} |-> f[y]]

Put(f, x, v) == [y \in DOMAIN f \cup {x} |-> IF y = x THEN v ELSE f[y]]

(* Filesystem effects on the world record w *)

Log(w, op) == [w EXCEPT !.moves = Append(@, op)]

\* shutil.move(src, dst)
fs_move(w, src, dst) ==
    Log([w EXCEPT !.fs = Put(Drop(@, src), dst, w.fs[src]),
                  !.at = IF @ = src THEN dst ELSE @],
        <<"move", src, dst>>)

\* a copy that takes the source away
fs_copy_moving(w, src, dst) == fs_move(w, src, dst)

\* shutil.copy2(src, dst)
fs_copy(w, src, dst) ==
    Log([w EXCEPT !.fs = Put(@, dst, w.fs[src])], <<"copy", src, dst>>)

\* audio.save(): the tags are written, the modification time changes
fs_tag(w, p) ==
    Log([w EXCEPT !.fs = [@ EXCEPT ![p].mtime = @ + 1]], <<"tag", p, p>>)

----------------------------------------------------------------------------
(* The catalog.  files and the two chunk tables are kept in rowid order.   *)

EmptyCatalog ==
    [files |-> <<>>, index |-> <<>>, albums |-> <<>>,
     known_fingerprints |-> {}, known_blocks |-> <<>>]

Row(path, fp, score, id, album, processed, dup, mtime) ==
    [path |-> path, fingerprint |-> fp, score |-> score, acoustid_id |-> id,
     album_id |-> album, processed |-> processed, is_duplicate |-> dup,
     last_mod |-> mtime]

\* PRAGMA foreign_keys = ON is issued by A06..A11 only
ForeignKeys(v) == v \in {"A06", "A10", "A11"}

\* A10 has no fingerprint_index table
HasPathIndex(v) == v # "A10"

Paths(c) == {c.files[i].path : i \in DOMAIN c.files}

HasRow(c, p) == p \in Paths(c)

GetRow(c, p) == c.files[CHOOSE i \in DOMAIN c.files : c.files[i].path = p]

IndexPaths(c) == {c.index[i][2] : i \in DOMAIN c.index}

IndexOf(c, p) == SelectSeq(c.index, LAMBDA r : r[2] = p)

\* DELETE FROM fingerprint_index WHERE path = ?
sql_delete_index(c, p) ==
    [c EXCEPT !.index = SelectSeq(@, LAMBDA r : r[2] # p)]

\* DELETE FROM files WHERE path = ?  (ON DELETE CASCADE when enforced)
sql_delete_file(v, c, p) ==
    LET c1 == [c EXCEPT !.files = SelectSeq(@, LAMBDA r : r.path # p)]
    IN  IF ForeignKeys(v) /\ HasRow(c, p) THEN sql_delete_index(c1, p) ELSE c1

\* INSERT OR REPLACE INTO files: a conflicting row is deleted first
sql_replace_file(v, c, row) ==
    LET c1 == sql_delete_file(v, c, row.path)
    IN  [c1 EXCEPT !.files = Append(@, row)]

\* UPDATE files SET path = ?, is_duplicate = 1 WHERE path = ?
sql_repoint_duplicate(c, src, dst) ==
    [c EXCEPT !.files = [i \in DOMAIN @ |->
        IF @[i].path = src
        THEN [@[i] EXCEPT !.path = dst, !.is_duplicate = 1]
        ELSE @[i]]]

\* executemany("INSERT INTO fingerprint_index VALUES (?, ?)", blocks)
sql_insert_index(c, p, blocks) ==
    [c EXCEPT !.index = @ \o [i \in DOMAIN blocks |-> <<blocks[i], p>>]]

\* INSERT OR REPLACE INTO albums
sql_replace_album(c, rel, meta) ==
    [c EXCEPT !.albums =
        SelectSeq(@, LAMBDA a : a[1] # rel) \o <<<<rel, meta>>>>]

\* INSERT OR IGNORE INTO albums
sql_insert_album(c, rel, meta) ==
    IF \E i \in DOMAIN c.albums : c.albums[i][1] = rel THEN c
    ELSE [c EXCEPT !.albums = Append(@, <<rel, meta>>)]

\* conn.commit(): the pending writes become durable
commit(w) == [w EXCEPT !.db = w.cur, !.commits = Append(@, w.cur)]

\* writes on the open connection
exec(w, c) == [w EXCEPT !.cur = c]

\* SELECT DISTINCT owner FROM <chunk table> WHERE block IN (blocks),
\* in order of first appearance
RECURSIVE Distinct(_)
Distinct(s) ==
    IF s = <<>> THEN <<>>
    ELSE LET r == Distinct(Slice(s, 0, Len(s) - 1))
             x == s[Len(s)]
         IN  IF x \in Range(r) THEN r ELSE Append(r, x)

\* the same query without DISTINCT: one owner per matching row
OwnersOfRows(table, blocks) ==
    LET hits == SelectSeq(table, LAMBDA r : r[1] \in Range(blocks))
    IN  [i \in DOMAIN hits |-> hits[i][2]]

Owners(table, blocks) ==
    LET hits == SelectSeq(table, LAMBDA r : r[1] \in Range(blocks))
    IN  Distinct([i \in DOMAIN hits |-> hits[i][2]])

----------------------------------------------------------------------------
(* Handlers return the world record w: the volume, the connection, the    *)
(* durable catalog, and the log of what the handler did.                   *)
(*   w.at   where the file being processed is now                          *)
(*   w.out  the decisions taken for it, one record per decision            *)

Outcome(d, old, oldTo, new) ==
    [decision |-> d, old |-> old, oldTo |-> oldTo, new |-> new]

Decide(w, o) == [w EXCEPT !.out = Append(@, o)]

Ret(w, r) == [w |-> w, ret |-> r]

----------------------------------------------------------------------------
(* A06..A11: _safe_move(src_path, target_dir, target_filename, operation)  *)

RECURSIVE safe_target(_, _, _)
safe_target(w, src, target) ==
    IF Exists(w, target) /\ src # target
    THEN safe_target(w, src, Bump(target))
    ELSE target

safe_move(w, dry, src, target, operation) ==
    IF ~Exists(w, src) THEN Ret(w, NoPath)
    ELSE LET t == safe_target(w, src, target)
         IN  IF t = src THEN Ret(w, t)
             ELSE IF dry THEN Ret(w, t)
             ELSE IF operation = "move" THEN Ret(fs_move(w, src, t), t)
             ELSE Ret(fs_copy(w, src, t), t)

\* _apply_tags(file_path, meta)
apply_tags(w, dry, p) ==
    IF dry \/ ~Exists(w, p) THEN w ELSE fs_tag(w, p)

\* _update_index(path, fingerprint)
update_index(v, c, p, fp) ==
    sql_insert_index(sql_delete_index(c, p), p, get_blocks(v, fp))

\* _update_fingerprint_cache(acoustid_id, fingerprint)
\* A10 inserts the chunks blindly, A11 only when the id has none yet
update_fingerprint_cache(v, w, id, fp) ==
    LET c1 == [w.cur EXCEPT !.known_fingerprints = @ \cup {<<fp, id>>}]
        blocks == get_blocks(v, fp)
        rows == [i \in DOMAIN blocks |-> <<blocks[i], id>>]
        has == \E i \in DOMAIN c1.known_blocks : c1.known_blocks[i][2] = id
        c2 == IF v = "A11" /\ has THEN c1
              ELSE [c1 EXCEPT !.known_blocks = @ \o rows]
    IN  commit(exec(w, c2))

\* score column read back from the catalog: NULL counts as 0.0
ScoreOf(r) == IF r.score = NoNum THEN 0 ELSE r.score

\* the canonical row written for an organised file
organised_row(final, fp, id, score, rel) ==
    Row(final, fp, score, id, rel, 1, NoNum, NoNum)

----------------------------------------------------------------------------
(* A11: _handle_album_deduplication(path, acoustid_id, release_id,         *)
(*      quality, dispose_source); ret is the value returned                *)

album_existing(c, id, rel) ==
    SelectSeq(c.files, LAMBDA r :
        r.acoustid_id = id /\ r.album_id = rel /\ r.processed = 1)

handle_album_deduplication(v, w, dry, path, id, rel, score, dispose_source) ==
    LET found == album_existing(w.cur, id, rel)
        \* m: what _safe_move did with the file sent to the duplicates folder
        upgraded(existing, m) ==
            Ret(Decide(commit(exec(m.w, sql_delete_file(v, m.w.cur,
                                                        existing.path))),
                       Outcome("keep_new", existing.path, m.ret, NoPath)),
                TRUE)
        disposed(existing, m) ==
            Ret(Decide(commit(exec(m.w, sql_replace_file(v, m.w.cur,
                                  Row(path, NoFp, score, id, NULL, 1,
                                      NoNum, NoNum)))),
                       Outcome("keep_old", existing.path, existing.path,
                               m.ret)),
                FALSE)
        compared(existing) ==
            IF score > ScoreOf(existing)
            THEN IF dry
                 THEN Ret(Decide(w, Outcome("keep_new", existing.path,
                                            existing.path, NoPath)), TRUE)
                 ELSE upgraded(existing,
                               safe_move(w, dry, existing.path,
                                         DupPath(existing.path, 0), "move"))
            ELSE IF dispose_source /\ ~dry
                 THEN disposed(existing,
                               safe_move(w, dry, path, DupPath(path, 0),
                                         "move"))
                 ELSE Ret(Decide(w, Outcome("keep_old", existing.path,
                                            existing.path, NoPath)), FALSE)
    IN  IF found = <<>> THEN Ret(w, TRUE) ELSE compared(found[1])

\* A11: the body of "for idx, selected_match in enumerate(selected_matches)"
RECURSIVE album_loop(_, _, _, _, _, _, _, _)
album_loop(v, w, dry, path, fp, score, selected, idx) ==
    IF idx > Len(selected) THEN w
    ELSE
    LET meta == Lookup(fp)
        sel == selected[idx]
        is_last_item == (idx = Len(selected))
        continue(w1) ==
            album_loop(v, w1, dry, path, fp, score, selected, idx + 1)
        \* d: the verdict of the deduplication, m: the move or copy made,
        \* t: the world after the tags were written
        catalogued(d, m, t) ==
            [commit(exec(t, update_index(v,
                 sql_replace_file(v,
                     sql_insert_album(t.cur, sel.release, sel.meta),
                     organised_row(m.ret, fp, meta.id, score, sel.release)),
                 m.ret, fp)))
             EXCEPT !.out =
                 IF d.w.out # w.out
                 THEN [@ EXCEPT ![Len(@)] =
                          [d.w.out[Len(d.w.out)] EXCEPT !.new = m.ret]]
                 ELSE Append(@, Outcome("unique", NoPath, NoPath, m.ret))]
        placed(d, m) ==
            IF m.ret = NoPath THEN continue(m.w)
            ELSE continue(catalogued(d, m, apply_tags(m.w, dry, m.ret)))
        deduplicated(d) ==
            IF ~d.ret THEN continue(d.w)
            ELSE placed(d, safe_move(d.w, dry, path,
                                     LibPath(sel.release, meta.title, 0),
                                     IF is_last_item THEN "move" ELSE "copy"))
    IN  deduplicated(handle_album_deduplication(v, w, dry, path, meta.id,
                                                sel.release, score,
                                                is_last_item))

\* the candidates re-sorted by (is_owned, similarity), descending, stable
owned_release_ids(c, id) ==
    {c.files[i].album_id : i \in {j \in DOMAIN c.files :
        c.files[j].acoustid_id = id /\ c.files[j].processed = 1}}

SortKey(cand, owned) ==
    (IF cand.release \in owned THEN 1000 ELSE 0) + cand.sim

RECURSIVE sort_desc(_, _)
sort_desc(cands, owned) ==
    IF cands = <<>> THEN <<>>
    ELSE LET best == CHOOSE i \in DOMAIN cands :
                /\ \A j \in DOMAIN cands :
                     SortKey(cands[j], owned) <= SortKey(cands[i], owned)
                /\ \A j \in 1..(i - 1) :
                     SortKey(cands[j], owned) < SortKey(cands[i], owned)
             rest == [k \in 1..(Len(cands) - 1) |->
                         IF k < best THEN cands[k] ELSE cands[k + 1]]
         IN  <<cands[best]>> \o sort_desc(rest, owned)

\* what _prompt_user_selection may return for n candidates: "quit", the
\* empty list, or the candidates picked by a comma-separated answer
Selections(n) ==
    {<<i>> : i \in 1..n} \cup {<<i, j>> : i \in 1..n, j \in 1..n}

----------------------------------------------------------------------------
(* What the user types.  dedup answers _prompt_dedup_resolution /           *)
(* resolve_conflict / _prompt_user ("none" when no such prompt is shown),  *)
(* kind and picks answer _prompt_user_selection.                           *)

Answer(dedup, kind, picks) == [dedup |-> dedup, kind |-> kind, picks |-> picks]

Ask(w, prompt) == [w EXCEPT !.asked = Append(@, prompt)]

\* sys.exit(0) after close(): the pending writes are lost, the run ends
quit_run(w) == [w EXCEPT !.cur = w.db, !.quit = TRUE]

----------------------------------------------------------------------------
(* A10: _identify_locally(fingerprint) -> <<acoustid_id, ratio>>           *)

RECURSIVE best_history(_, _, _, _)
best_history(fp, hist, best_id, best_score) ==
    IF hist = <<>> THEN <<best_id, best_score>>
    ELSE LET h == Head(hist)
             r == Ratio(fp, h[1])
         IN  IF RatioGT(r, best_score)
             THEN best_history(fp, Tail(hist), h[2], r)
             ELSE best_history(fp, Tail(hist), best_id, best_score)

\* rows of known_fingerprints of the candidate ids, candidate by candidate
RECURSIVE history_of(_, _)
history_of(c, ids) ==
    IF ids = <<>> THEN <<>>
    ELSE LET S == {h \in c.known_fingerprints : h[2] = Head(ids)}
             fps == {h[1] : h \in S}
             RECURSIVE AsSeq(_)
             AsSeq(T) == IF T = {} THEN <<>>
                         ELSE LET x == CHOOSE y \in T : TRUE
                              IN  <<<<x, Head(ids)>>>> \o AsSeq(T \ {x})
         IN  AsSeq(fps) \o history_of(c, Tail(ids))

identify_locally(v, c, fp) ==
    LET blocks == get_blocks(v, fp)
        ids == Owners(c.known_blocks, blocks)
    IN  IF blocks = <<>> \/ ids = <<>> THEN <<NULL, ZeroRatio>>
        ELSE best_history(fp, history_of(c, ids), NULL, ZeroRatio)

\* A06, A10: _handle_id_deduplication(path, acoustid_id, quality)
\* ret: "go" (proceed), "stop" (discard the new file), "error" (exception)
id_existing(c, id) ==
    SelectSeq(c.files, LAMBDA r : r.acoustid_id = id /\ r.processed = 1)

handle_id_deduplication(v, w, dry, path, id, score) ==
    LET found == id_existing(w.cur, id)
        strip(c, p) == IF v = "A06" THEN sql_delete_index(c, p) ELSE c
        \* m: what _safe_move did with the file sent to the duplicates folder
        upgraded(existing, m) ==
            Ret(Decide(commit(exec(m.w,
                           strip(sql_delete_file(v, m.w.cur, existing.path),
                                 existing.path))),
                       Outcome("keep_new", existing.path,
                               IF dry \/ m.ret = NoPath THEN existing.path
                               ELSE m.ret,
                               NoPath)),
                "go")
        discarded(existing, m) ==
            Ret(Decide(commit(exec(m.w, sql_replace_file(v, m.w.cur,
                                  Row(path, NoFp,
                                      IF v = "A06" THEN NoNum ELSE score,
                                      id, NULL, 1, NoNum, NoNum)))),
                       Outcome("keep_old", existing.path, existing.path,
                               m.w.at)),
                "stop")
        compared(existing) ==
            IF v = "A06" /\ existing.score = NoNum
            THEN Ret(w, "error")      \* TypeError: float > None
            ELSE IF score > ScoreOf(existing)
            THEN IF dry /\ v = "A10"
                 THEN Ret(Decide(w, Outcome("keep_new", existing.path,
                                            existing.path, NoPath)), "go")
                 ELSE upgraded(existing,
                               safe_move(w, dry, existing.path,
                                         DupPath(existing.path, 0), "move"))
            ELSE discarded(existing,
                           safe_move(w, dry, path, DupPath(path, 0), "move"))
    IN  IF found = <<>> THEN Ret(w, "go") ELSE compared(found[1])

\* A06, A10: tag in place, move into the layout, write the catalog row
organise_one(v, w, dry, path, fp, score, id, title, cand, o) ==
    LET indexed(c, p) == IF HasPathIndex(v) THEN update_index(v, c, p, fp)
                         ELSE c
        \* m: what _safe_move did with the tagged file
        catalogued(m) ==
            commit(exec(m.w, indexed(
                sql_replace_file(v,
                    sql_insert_album(m.w.cur, cand.release, cand.meta),
                    organised_row(m.ret, fp, id, score, cand.release)),
                m.ret)))
        reported(m, w3) ==
            IF o = Len(w.out) /\ o > 0 /\ w.out[o].decision = "keep_new"
            THEN [w3 EXCEPT !.out[o].new = m.ret]
            ELSE Decide(w3, Outcome("unique", NoPath, NoPath, m.ret))
        moved(m) == reported(m, catalogued(m))
    IN  moved(safe_move(apply_tags(w, dry, path), dry, path,
                        LibPath(cand.release, title, 0), "move"))

----------------------------------------------------------------------------
(* A06: _find_local_fuzzy_match(fingerprint) -> <<path, ratio>>            *)

RECURSIVE best_candidate(_, _, _, _, _)
best_candidate(c, fp, cands, best_path, best_score) ==
    IF cands = <<>> THEN <<best_path, best_score>>
    ELSE LET p == Head(cands)
         IN  IF ~HasRow(c, p)
             THEN best_candidate(c, fp, Tail(cands), best_path, best_score)
             ELSE LET r == Ratio(fp, GetRow(c, p).fingerprint)
                  IN  IF RatioGT(r, best_score)
                      THEN best_candidate(c, fp, Tail(cands), p, r)
                      ELSE best_candidate(c, fp, Tail(cands),
                                          best_path, best_score)

find_local_fuzzy_match(v, c, fp) ==
    LET blocks == get_blocks(v, fp)
    IN  IF blocks = <<>> THEN <<NoPath, ZeroRatio>>
        ELSE best_candidate(c, fp, Owners(c.index, blocks), NoPath, ZeroRatio)

\* A06: _handle_local_deduplication(path, fingerprint, quality)
\* ret TRUE: proceed with this file
handle_local_deduplication(v, w, dry, path, fp, score, ans) ==
    LET \* m: what _safe_move did with the file sent to the duplicates folder
        replaced(match_path, m) ==
            Ret(Decide(commit(exec(m.w, sql_delete_index(
                                   sql_delete_file(v, m.w.cur, match_path),
                                   match_path))),
                       Outcome("keep_new", match_path,
                               IF dry \/ m.ret = NoPath THEN match_path
                               ELSE m.ret,
                               NoPath)),
                TRUE)
        discarded(match_path, m) ==
            Ret(Decide(commit(exec(m.w, sql_replace_file(v, m.w.cur,
                                  Row(path, fp, NoNum, NULL, NULL, 1,
                                      NoNum, NoNum)))),
                       Outcome("keep_old", match_path, match_path, m.w.at)),
                FALSE)
        \* w0: the world after the prompt, if one was shown
        executed(match_path, decision, w0) ==
            IF decision = "new"
            THEN replaced(match_path,
                          safe_move(w0, dry, match_path,
                                    DupPath(match_path, 0), "move"))
            ELSE IF decision = "old"
            THEN discarded(match_path,
                           safe_move(w0, dry, path, DupPath(path, 0), "move"))
            ELSE Ret(Decide(w0, Outcome("skip", match_path, match_path,
                                        w0.at)), FALSE)
        resolved(match_path, auto, record) ==
            executed(match_path,
                     IF auto
                     THEN IF score > record.score THEN "new" ELSE "old"
                     ELSE ans.dedup,
                     IF auto THEN w ELSE Ask(w, "dedup"))
        matched(match) ==
            IF match[1] = NoPath \/ ~RatioGE(match[2], SIMILARITY_ASK(v))
            THEN Ret(w, TRUE)
            ELSE resolved(match[1], RatioGE(match[2], SIMILARITY_AUTO),
                          GetRow(w.cur, match[1]))
    IN  matched(find_local_fuzzy_match(v, w.cur, fp))

----------------------------------------------------------------------------
(* The body of the scan loop of process_library, one generation each.      *)

Skip(w, why) == Decide(w, Outcome(why, NoPath, NoPath, w.at))

\* the scorer's failure taken for a score like any other
unscoreable_defaulted(stats) == FALSE

\* "if not stats: continue" (Ref), "if not stats: return" (A03),
\* "if not quality: continue" (A06..A11): the scorer returned None
unscoreable(stats) == stats = NoNum

\* A06..A11 leave the item when the lookup has no result ("continue") as
\* when it raises ("except Exception" at the end of the loop body)
NoResult(fp) == IF fp = FE THEN "error" ELSE "nomatch"

Seen(c, path) == HasRow(c, path) /\ GetRow(c, path).processed = 1

\* the single candidate chosen in A06 and A10, <<>> when none
pick_one(v, w, cands, ans) ==
    LET top_match == cands[1]
        auto == \/ top_match.sim >= API_AUTO_SELECT
                \/ (v = "A10" /\ Len(cands) = 1)
    IN  IF auto THEN Ret(w, <<top_match>>)
        ELSE IF ans.kind = "pick" /\ Len(ans.picks) = 1
        THEN Ret(Ask(w, "select"), <<cands[ans.picks[1]]>>)
        ELSE IF ans.kind = "quit" /\ v = "A10"
        THEN Ret(quit_run(Ask(w, "select")), <<>>)
        ELSE Ret(Skip(Ask(w, "select"), "skip"), <<>>)

process_A06(w, dry, path, ans) ==
    LET v == "A06"
        fp == w.fs[path].fp
        score == w.fs[path].score
        meta == Lookup(fp)
        \* d1, d2: the verdicts of the two deduplications, s: the selection
        selected(d2, s) ==
            IF s.ret = <<>> THEN s.w
            ELSE organise_one(v, s.w, dry, path, fp, score, meta.id,
                              meta.title, s.ret[1], Len(d2.w.out))
        identified(d2) ==
            IF d2.ret = "error" THEN Skip(d2.w, "error")
            ELSE IF d2.ret = "stop" THEN d2.w
            ELSE selected(d2, pick_one(v, d2.w, meta.cands, ans))
        compared(d1) ==
            IF ~d1.ret THEN d1.w
            ELSE IF ~meta.ok THEN Skip(d1.w, NoResult(fp))
            ELSE identified(handle_id_deduplication(v, d1.w, dry, path,
                                                    meta.id, score))
    IN  IF Seen(w.cur, path) THEN Skip(w, "seen")
        ELSE IF ~Exists(w, path) THEN Skip(w, "gone")
        ELSE IF fp = NoFp THEN Skip(w, "nofp")
        ELSE IF unscoreable(score) THEN Skip(w, "unscoreable")
        ELSE compared(handle_local_deduplication(v, w, dry, path, fp, score,
                                                 ans))

process_A10(w, dry, path, ans) ==
    LET v == "A10"
        fp == w.fs[path].fp
        score == w.fs[path].score
        meta == Lookup(fp)
        \* d2: the verdict of the deduplication, s: the selection
        selected(d2, s) ==
            IF s.ret = <<>> THEN s.w
            ELSE organise_one(v, s.w, dry, path, fp, score, meta.id,
                              meta.title, s.ret[1], Len(d2.w.out))
        identified(d2) ==
            IF d2.ret = "stop" THEN d2.w
            ELSE selected(d2, pick_one(v, d2.w, meta.cands, ans))
        \* local: what _identify_locally returned
        looked_up(local) ==
            IF local[1] # NULL /\ RatioGE(local[2], SIMILARITY_AUTO)
            THEN handle_id_deduplication(v,
                     update_fingerprint_cache(v, w, local[1], fp),
                     dry, path, local[1], score).w
            ELSE IF ~meta.ok THEN Skip(w, NoResult(fp))
            ELSE identified(handle_id_deduplication(v,
                     update_fingerprint_cache(v, w, meta.id, fp),
                     dry, path, meta.id, score))
    IN  IF Seen(w.cur, path) THEN Skip(w, "seen")
        ELSE IF ~Exists(w, path) THEN Skip(w, "gone")
        ELSE IF fp = NoFp THEN Skip(w, "nofp")
        ELSE IF unscoreable(score) THEN Skip(w, "unscoreable")
        ELSE looked_up(identify_locally(v, w.cur, fp))

process_A11(w, dry, path, ans) ==
    LET v == "A11"
        fp == w.fs[path].fp
        score == w.fs[path].score
        meta == Lookup(fp)
        \* cands: the candidates re-sorted, w2: the world after the prompt
        chosen(cands, auto, w2) ==
            IF ~auto /\ ans.kind = "quit" THEN quit_run(w2)
            ELSE IF ~auto /\ ans.kind # "pick" THEN Skip(w2, "skip")
            ELSE album_loop(v, w2, dry, path, fp, score,
                            IF auto THEN <<cands[1]>>
                            ELSE [i \in DOMAIN ans.picks |->
                                     cands[ans.picks[i]]],
                            1)
        sorted(w1, cands) ==
            chosen(cands,
                   Len(cands) = 1 \/ cands[1].sim >= API_AUTO_SELECT,
                   IF Len(cands) = 1 \/ cands[1].sim >= API_AUTO_SELECT
                   THEN w1 ELSE Ask(w1, "select"))
        cached(w1) ==
            sorted(w1, sort_desc(meta.cands,
                                 owned_release_ids(w1.cur, meta.id)))
    IN  IF Seen(w.cur, path) THEN Skip(w, "seen")
        ELSE IF ~Exists(w, path) THEN Skip(w, "gone")
        ELSE IF fp = NoFp THEN Skip(w, "nofp")
        ELSE IF unscoreable(score) THEN Skip(w, "unscoreable")
        ELSE IF ~meta.ok THEN Skip(w, NoResult(fp))
        ELSE cached(update_fingerprint_cache(v, w, meta.id, fp))

----------------------------------------------------------------------------
(* Ref and A03: index-based matching returns the first candidate whose     *)
(* ratio reaches SIMILARITY_ASK.  Ref reads only rows with is_duplicate=0. *)

RECURSIVE first_match(_, _, _, _)
first_match(v, c, fp, cands) ==
    IF cands = <<>> THEN <<NoPath, ZeroRatio>>
    ELSE LET p == Head(cands)
             usable == /\ HasRow(c, p)
                       /\ (v = "Ref" => GetRow(c, p).is_duplicate = 0)
         IN  IF ~usable THEN first_match(v, c, fp, Tail(cands))
             ELSE LET sim == Ratio(fp, GetRow(c, p).fingerprint)
                  IN  IF RatioGE(sim, SIMILARITY_ASK(v)) THEN <<p, sim>>
                      ELSE first_match(v, c, fp, Tail(cands))

\* a matcher that takes the first candidate of the index as it comes, row
\* or no row
find_match_unchecked(v, c, fp) ==
    LET cands == Owners(c.index, get_blocks(v, fp))
    IN  IF cands # <<>> /\ ~HasRow(c, Head(cands))
        THEN <<Head(cands), ZeroRatio>>
        ELSE first_match(v, c, fp, cands)

\* Ref: find_match(conn, new_fp);  A03: _find_best_match(fingerprint)
find_match(v, c, fp) ==
    first_match(v, c, fp, Owners(c.index, get_blocks(v, fp)))

\* fetch_tags(fingerprint, duration): first release of the first recording
fetch_tags(fp) ==
    LET meta == Lookup(fp)
    IN  IF meta.ok THEN [album |-> meta.cands[1].release, title |-> meta.title]
        ELSE [album |-> NULL, title |-> NULL]

\* the columns of a row of Ref (processed, is_duplicate) and A03
row_of(v, path, fp, stats, dup) ==
    Row(path, fp, stats.score, NULL, NULL,
        IF v = "Ref" THEN 1 ELSE NoNum, dup, stats.mtime)

\* Ref: _move_to_dups(conn, file_path, fp, stats); stats.score = NoNum
\* stands for the call without fp and stats
move_to_dups(w, dry, file_path, fp, stats) ==
    LET \* m: the world after shutil.move, c1: the catalog without the chunks
        recorded(target, m, c1) ==
            exec(m, IF stats.score # NoNum
                    THEN sql_replace_file("Ref", c1,
                             row_of("Ref", target, fp, stats, 1))
                    ELSE sql_repoint_duplicate(c1, file_path, target))
        moved(target, m) ==
            recorded(target, m, sql_delete_index(m.cur, file_path))
        named(target) == moved(target, fs_move(w, file_path, target))
    IN  IF dry \/ ~Exists(w, file_path) THEN w
        ELSE named(get_safe_path(w, DupPath(file_path, 0)))

NoStats == [score |-> NoNum, mtime |-> NoNum]

\* Ref: organize_and_tag(file_path, tags) -> final path
organize_and_tag(w, dry, file_path, tags) ==
    LET target_path == LibPath(tags.album, tags.title, 0)
        \* t: the world after the tags were written
        named(t, final_path) ==
            Ret(fs_move(t, file_path, final_path), final_path)
        tagged(t) ==
            IF dry THEN Ret(t, target_path)
            ELSE named(t, get_safe_path(t, target_path))
    IN  IF tags.title = NULL THEN Ret(w, file_path)
        ELSE tagged(IF dry \/ ~Exists(w, file_path) THEN w
                    ELSE fs_tag(w, file_path))

\* Ref: _handle_winner(conn, path, fingerprint, stats).  The row is keyed
\* by the final path, the chunks are stored under the path scanned.
handle_winner(w, dry, path, fp, stats) ==
    LET \* o: what organize_and_tag returned
        recorded(o) ==
            Ret(exec(o.w,
                     sql_insert_index(
                         sql_delete_index(
                             sql_replace_file("Ref", o.w.cur,
                                 row_of("Ref", o.ret, fp, stats, 0)),
                             path),
                         path, get_blocks("Ref", fp))),
                o.ret)
    IN  IF ~Exists(w, path) THEN Ret(w, path)   \* fingerprint_file raises
        ELSE IF fp = FE THEN Ret(w, path)
             \* the lookup raises; the handler in fetch_tags formats an
             \* unbound e, and the NameError is caught here
        ELSE recorded(organize_and_tag(w, dry, path, fetch_tags(fp)))

process_Ref(w, dry, current_path, ans) ==
    LET v == "Ref"
        file == w.fs[current_path]
        unchanged == /\ HasRow(w.cur, current_path)
                     /\ GetRow(w.cur, current_path).last_mod = file.mtime
        stats == [score |-> file.score, mtime |-> file.mtime]
        \* w0: the world after the prompt, if one was shown; w1: after the
        \* loser was moved away; h: what _handle_winner returned
        won(match_path, w0, w1, h) ==
            commit(Decide(h.w,
                Outcome(IF match_path = NoPath THEN "unique" ELSE "keep_new",
                        match_path,
                        IF match_path = NoPath THEN NoPath
                        ELSE IF w1.fs = w0.fs THEN match_path
                        ELSE w1.moves[Len(w1.moves)][3],
                        h.ret)))
        cleared(match_path, w0, w1) ==
            won(match_path, w0, w1,
                handle_winner(w1, dry, current_path, file.fp, stats))
        lost(match_path, w1) ==
            commit(Decide(w1, Outcome("keep_old", match_path, match_path,
                                      w1.at)))
        decided(match_path, decision, w0) ==
            IF decision = "1"
            THEN cleared(match_path, w0,
                         IF match_path # NoPath
                         THEN move_to_dups(w0, dry, match_path, NoFp, NoStats)
                         ELSE w0)
            ELSE IF decision = "2"
            THEN lost(match_path,
                      move_to_dups(w0, dry, current_path, file.fp, stats))
            ELSE commit(Decide(w0, Outcome("skip", match_path, match_path,
                                           w0.at)))
        matched(match_path, auto) ==
            decided(match_path,
                    IF match_path = NoPath THEN "1"
                    ELSE IF auto
                    THEN IF stats.score > GetRow(w.cur, match_path).score
                         THEN "1" ELSE "2"
                    ELSE ans.dedup,
                    IF match_path # NoPath /\ ~auto THEN Ask(w, "dedup")
                    ELSE w)
        found(match) == matched(match[1], RatioGE(match[2], SIMILARITY_AUTO))
    IN  IF ~Exists(w, current_path)
        THEN quit_run(Skip(w, "crash"))     \* stat() raises outside the try
        ELSE IF unchanged THEN Skip(w, "seen")
        ELSE IF file.fp = NoFp THEN Skip(w, "nofp")
        ELSE IF unscoreable(file.score) THEN Skip(w, "unscoreable")
        ELSE found(find_match(v, w.cur, file.fp))

----------------------------------------------------------------------------
(* A03 *)

\* DatabaseHandler.upsert_file(path, fp, stats, is_duplicate): one
\* transaction ("with self.conn"), committed on exit
upsert_file(w, path, fp, stats, is_duplicate) ==
    LET \* c2: the catalog with the row written and its old chunks deleted
        indexed(c2) ==
            IF is_duplicate THEN c2
            ELSE sql_insert_index(c2, path, get_blocks("A03", fp))
    IN  commit(exec(w, indexed(sql_delete_index(
            sql_replace_file("A03", w.cur,
                row_of("A03", path, fp, stats,
                       IF is_duplicate THEN 1 ELSE 0)),
            path))))

\* DatabaseHandler.delete_index(path): its own transaction
delete_index(w, path) == commit(exec(w, sql_delete_index(w.cur, path)))

\* LibraryManager._move_file(src, dest_folder, filename, is_duplicate,
\* stats, fp) -> path; stats.score = NoNum stands for stats=None
move_file(w, dry, src, target, is_duplicate, stats, fp) ==
    LET \* m: the world after shutil.move, d: after delete_index
        unindexed(target_path, d) ==
            IF stats.score # NoNum /\ fp # NoFp
            THEN Ret(upsert_file(d, target_path, fp, stats, TRUE),
                     target_path)
            ELSE Ret(exec(d, sql_repoint_duplicate(d.cur, src, target_path)),
                     target_path)
        moved(target_path, m) ==
            IF ~is_duplicate THEN Ret(m, target_path)
            ELSE unindexed(target_path, delete_index(m, src))
        named(target_path) ==
            IF dry THEN Ret(w, target_path)
            ELSE IF ~Exists(w, src) THEN Ret(w, src)  \* shutil.move raises
            ELSE moved(target_path, fs_move(w, src, target_path))
    IN  named(get_safe_path(w, target))

\* LibraryManager._handle_unique(path, stats, fingerprint, duration)
handle_unique(w, dry, path, stats, fp) ==
    LET \* m: what _move_file returned
        moved(m) == Ret(upsert_file(m.w, m.ret, fp, stats, FALSE), m.ret)
        tagged(tags) ==
            IF tags.title = NULL
            THEN Ret(upsert_file(w, path, fp, stats, FALSE), path)
            ELSE moved(move_file(IF dry \/ ~Exists(w, path) THEN w
                                 ELSE fs_tag(w, path),
                                 dry, path,
                                 LibPath(tags.album, tags.title, 0),
                                 FALSE, NoStats, NoFp))
    IN  tagged(fetch_tags(fp))

\* LibraryManager._process_single_file(current_path)
process_A03(w, dry, current_path, ans) ==
    LET v == "A03"
        file == w.fs[current_path]
        unchanged == /\ HasRow(w.cur, current_path)
                     /\ GetRow(w.cur, current_path).last_mod = file.mtime
        stats == [score |-> file.score, mtime |-> file.mtime]
        \* h: what _handle_unique returned, m: what _move_file returned,
        \* w0: the world after the prompt, if one was shown
        unique(h) == Decide(h.w, Outcome("unique", NoPath, NoPath, h.ret))
        kept_new(match_path, m, h) ==
            Decide(h.w, Outcome("keep_new", match_path,
                                IF dry THEN match_path ELSE m.ret, h.ret))
        old_moved(match_path, m) ==
            IF ~Exists(m.w, current_path)   \* get_fingerprint raises
            THEN Decide(m.w, Outcome("failed", match_path, m.ret, m.w.at))
            ELSE kept_new(match_path, m,
                          handle_unique(m.w, dry, current_path, stats,
                                        file.fp))
        new_moved(match_path, m) ==
            Decide(m.w, Outcome("keep_old", match_path, match_path, m.w.at))
        decided(match_path, decision, w0) ==
            IF decision = "1"
            THEN old_moved(match_path,
                           move_file(w0, dry, match_path,
                                     DupPath(match_path, 0), TRUE, NoStats,
                                     NoFp))
            ELSE IF decision = "2"
            THEN new_moved(match_path,
                           move_file(w0, dry, current_path,
                                     DupPath(current_path, 0), TRUE, stats,
                                     file.fp))
            ELSE Decide(w0, Outcome("skip", match_path, match_path, w0.at))
        matched(match_path, auto) ==
            IF match_path = NoPath
            THEN unique(handle_unique(w, dry, current_path, stats, file.fp))
            ELSE decided(match_path,
                         IF auto
                         THEN IF GetRow(w.cur, match_path).score > stats.score
                              THEN "2" ELSE "1"
                         ELSE ans.dedup,
                         IF ~auto THEN Ask(w, "dedup") ELSE w)
        found(match) == matched(match[1], RatioGE(match[2], SIMILARITY_AUTO))
    IN  IF ~Exists(w, current_path) THEN Skip(w, "gone")
        ELSE IF unchanged THEN Skip(w, "seen")
        ELSE IF unscoreable(file.score) THEN Skip(w, "unscoreable")
        ELSE IF file.fp = NoFp THEN Skip(w, "nofp")
        ELSE found(find_match(v, w.cur, file.fp))

----------------------------------------------------------------------------
(* Startup: the constructor, then the directory scan of process_library.   *)

\* the rows whose file is missing, as prune_database sees them
Ghosts(w, c) == {p \in Paths(c) : ~Exists(w, p)}

RECURSIVE delete_all(_, _, _, _)
delete_all(v, c, S, withIndex) ==
    IF S = {} THEN c
    ELSE LET p == CHOOSE x \in S : TRUE
             c1 == sql_delete_file(v, c, p)
             c2 == IF withIndex THEN sql_delete_index(c1, p) ELSE c1
         IN  delete_all(v, c2, S \ {p}, withIndex)

\* a prune that deletes from files alone, as A06 would without the cascade
prune_files_only(v, w) ==
    IF w.root = "missing" THEN w
    ELSE commit(exec(w, [w.cur EXCEPT
            !.files = SelectSeq(@, LAMBDA r : Exists(w, r.path))]))

\* a prune that also forgets what the deleted files had been identified as
prune_database_history(v, w) ==
    IF w.root = "missing" THEN w
    ELSE commit(exec(w, [delete_all(v, w.cur, Ghosts(w, w.cur),
                                    v \in {"A03", "A11"})
                         EXCEPT !.known_fingerprints =
                            {k \in @ : \E r \in Range(w.cur.files) :
                                /\ r.fingerprint = k[1]
                                /\ Exists(w, r.path)}]))

\* prune_database(): guarded by the existence of the music folder.
\* A03 and A11 delete from both tables, A06 and A10 from files only.
prune_database(v, w) ==
    IF w.root = "missing" THEN w
    ELSE commit(exec(w, delete_all(v, w.cur, Ghosts(w, w.cur),
                                   v \in {"A03", "A11"})))

\* Config.validate() of A03: MUSIC_FOLDER.mkdir(parents=True, exist_ok=True)
validate(w) ==
    IF w.root = "missing" THEN [w EXCEPT !.root = "emptydir"] ELSE w

World(p) ==
    [root |-> root, fs |-> fs, cur |-> cur, db |-> db, commits |-> <<>>,
     moves |-> <<>>, at |-> p, out |-> <<>>, asked |-> <<>>, quit |-> FALSE]

\* the constructor of each generation; ok = FALSE when it raises
construct(v, w, hasSchema) ==
    IF v \in {"Ref", "ALM"} THEN [w |-> w, ok |-> TRUE]
    ELSE IF v = "A03"
    THEN LET w1 == validate(w)
         IN  IF hasSchema THEN [w |-> prune_database(v, w1), ok |-> TRUE]
             ELSE [w |-> w1, ok |-> FALSE]     \* no such table: files
    ELSE [w |-> prune_database(v, w), ok |-> TRUE]

ScanList(v, w) == {p \in DOMAIN w.fs : Exists(w, p) /\ Scanned(v, p)}

NoFile == [fp |-> NoFp, score |-> NoNum, mtime |-> NoNum]

\* typed: the keys the user pressed at the duplicate prompt, choice: what
\* the prompt returned ("none": no prompt was shown)
Report(kind, p, file, w, root0, typed, choice) ==
    [kind |-> kind, path |-> p, file |-> file, at |-> w.at, out |-> w.out,
     asked |-> w.asked, root0 |-> root0, typed |-> typed, choice |-> choice]

Init ==
    /\ variant \in Variants
    /\ dry_run = FALSE
    /\ root = "mounted"
    /\ fs = <<>>
    /\ schema \in BOOLEAN
    /\ db = EmptyCatalog
    /\ cur = EmptyCatalog
    /\ commits = <<>>
    /\ moves = <<>>
    /\ last = Report("init", NoPath, NoFile, World(NoPath), "mounted", <<>>,
                     "none")
    /\ phase = "down"
    /\ todo = {}
    /\ runs = 0
    /\ prev = EmptyCatalog
    /\ steady = FALSE
    /\ dropped = 0

Stems == <<"f1", "f2", "f3", "f4">>

\* a file is put into the music folder
DropFile ==
    /\ phase = "down"
    /\ root = "mounted"
    /\ dropped < MaxFiles
    /\ \E fp \in Fingerprints, score \in 1..MaxScore :
         fs' = Put(fs, InPath(Stems[dropped + 1]),
                   [fp |-> fp, score |-> score, mtime |-> 0])
    /\ dropped' = dropped + 1
    /\ steady' = FALSE
    /\ UNCHANGED <<variant, dry_run, root, schema, db, cur, commits, moves,
                   last, phase, todo, runs, prev>>

\* the removable volume is taken away
Unmount ==
    /\ phase = "down"
    /\ root = "mounted"
    /\ root' = "missing"
    /\ steady' = FALSE
    /\ UNCHANGED <<variant, dry_run, fs, schema, db, cur, commits, moves,
                   last, phase, todo, runs, prev, dropped>>

\* ... and brought back
Mount ==
    /\ phase = "down"
    /\ root # "mounted"
    /\ root' = "mounted"
    /\ steady' = FALSE
    /\ UNCHANGED <<variant, dry_run, fs, schema, db, cur, commits, moves,
                   last, phase, todo, runs, prev, dropped>>

Startup ==
    /\ phase = "down"
    /\ runs < MaxRuns
    /\ dry_run' \in BOOLEAN            \* the mode is chosen per run
    /\ \E k \in {construct(variant, World(NoPath), schema)} :
           /\ root' = k.w.root
           /\ db' = k.w.db
           /\ cur' = k.w.db
           /\ commits' = k.w.commits
           /\ schema' = (schema \/ k.ok)
           /\ phase' = IF k.ok THEN "run" ELSE "down"
           /\ todo' = IF k.ok THEN ScanList(variant, k.w) ELSE {}
           /\ runs' = IF k.ok THEN runs ELSE runs + 1
           /\ last' = Report(IF k.ok THEN "startup" ELSE "failed",
                             NoPath, NoFile, k.w, root, <<>>, "none")
    /\ moves' = <<>>
    /\ steady' = (steady /\ dry_run' = dry_run)
    /\ UNCHANGED <<variant, fs, prev, dropped>>

\* the keys a user may press at a prompt, and str.lower()
Keys == {"1", "2", "S", "n", "o"}

Lower(k) == IF k = "S" THEN "s" ELSE k

KeySeqs == UNION {[1..n -> Keys] : n \in 0..MaxKeys}

\* a prompt without the loop: whatever is typed first is returned
prompt_unchecked(v, typed) ==
    IF typed = <<>> THEN "none" ELSE Lower(Head(typed))

\* resolve_conflict (Ref), _prompt_user (A03), _prompt_dedup_resolution
\* (A06): "while True: choice = input(...).lower()", left only by a return.
\* "none": the input ran out, the loop is still waiting
RECURSIVE prompt_dedup(_, _)
prompt_dedup(v, typed) ==
    IF typed = <<>> THEN "none"
    ELSE LET choice == Lower(Head(typed))
         IN  IF v \in {"Ref", "A03"}
             THEN IF choice \in {"1", "2", "s"} THEN choice
                  ELSE prompt_dedup(v, Tail(typed))
             ELSE IF choice = "n" THEN "new"
             ELSE IF choice = "o" THEN "old"
             ELSE IF choice = "s" THEN "skip"
             ELSE prompt_dedup(v, Tail(typed))

\* what is typed until the prompt returns; nothing when no prompt is shown
\* (A10 and A11 never call their _prompt_dedup_resolution)
Typed(v) ==
    {t \in KeySeqs :
        \/ t = <<>>
        \/ /\ v \in {"Ref", "A03", "A06"}
           /\ prompt_dedup(v, t) # "none"
           /\ prompt_dedup(v, SubSeq(t, 1, Len(t) - 1)) = "none"}

\* what the prompts of each generation return: 1, 2, s (Ref, A03), new,
\* old, skip (A06); "none" when no such prompt is shown
DedupAnswers(v) == {prompt_dedup(v, t) : t \in Typed(v)}

\* _prompt_user_selection: one candidate in A06 and A10, a comma-separated
\* list in A11; 0 skips, q quits (A10, A11)
SelectAnswers(v) ==
    IF v \in {"Ref", "A03"} THEN {<<"none", <<>>>>}
    ELSE {<<"none", <<>>>>, <<"skip", <<>>>>}
         \cup (IF v = "A06" THEN {} ELSE {<<"quit", <<>>>>})
         \cup {<<"pick", s>> : s \in {t \in Selections(2) :
                                        v = "A11" \/ Len(t) = 1}}

AllAnswers(v) ==
    {Answer(d, k[1], k[2]) : d \in DedupAnswers(v), k \in SelectAnswers(v)}

process_file(v, w, dry, p, ans) ==
    CASE v = "Ref" -> process_Ref(w, dry, p, ans)
      [] v = "A03" -> process_A03(w, dry, p, ans)
      [] v = "A06" -> process_A06(w, dry, p, ans)
      [] v = "A10" -> process_A10(w, dry, p, ans)
      [] v = "A11" -> process_A11(w, dry, p, ans)

\* the answers are exactly those the handler asked for, and valid ones
Answered(w, ans, ncands) ==
    /\ (ans.dedup # "none") <=> ("dedup" \in Range(w.asked))
    /\ (ans.kind # "none") <=> ("select" \in Range(w.asked))
    /\ \A i \in DOMAIN ans.picks : ans.picks[i] <= ncands

\* one iteration of the scan loop
Process ==
    /\ phase = "run"
    /\ \E p \in todo, ans \in AllAnswers(variant) :
       \E w \in {process_file(variant, World(p), dry_run, p, ans)} :
         LET file == IF p \in DOMAIN fs THEN fs[p] ELSE NoFile
             ncands == IF p \in DOMAIN fs /\ fs[p].fp # NoFp
                       THEN Len(Lookup(fs[p].fp).cands) ELSE 0
         IN  /\ Answered(w, ans, ncands)
             /\ \A q \in DOMAIN w.fs : w.fs[q].mtime <= MaxMtime
             /\ fs' = w.fs
             /\ db' = w.db
             /\ cur' = w.cur
             /\ commits' = w.commits
             /\ moves' = w.moves
             /\ \E typed \in {t \in Typed(variant) :
                                prompt_dedup(variant, t) = ans.dedup} :
                    last' = Report("file", p, file, w, root, typed,
                                   ans.dedup)
             /\ phase' = IF w.quit THEN "down" ELSE "run"
             /\ todo' = IF w.quit THEN {} ELSE todo \ {p}
             /\ runs' = IF w.quit THEN runs + 1 ELSE runs
             /\ prev' = IF w.quit THEN w.db ELSE prev
             /\ steady' = (steady /\ w.asked = <<>> /\ ~w.quit)
    /\ UNCHANGED <<variant, dry_run, root, schema, dropped>>

\* the scan loop is over: Ref leaves "with sqlite3.connect(...) as conn",
\* which commits; the others close the connection
EndRun ==
    /\ phase = "run"
    /\ todo = {}
    /\ phase' = "down"
    /\ runs' = runs + 1
    /\ db' = IF variant = "Ref" THEN cur ELSE db
    /\ cur' = db'
    /\ prev' = db'
    /\ steady' = TRUE
    /\ last' = Report("end", NoPath, NoFile, World(NoPath), root, <<>>,
                       "none")
    /\ commits' = <<>>
    /\ moves' = <<>>
    /\ UNCHANGED <<variant, dry_run, root, fs, schema, todo, dropped>>

Next == DropFile \/ Unmount \/ Mount \/ Startup \/ Process \/ EndRun

Spec == Init /\ [][Next]_vars

\* the scan list of the run is not exhausted
RunCanGoOn == phase = "run" /\ todo # {}

\* the guard of Process: some file of the list has an iteration, the
\* prompts it shows being answered
ProcessEnabled ==
    \E p \in todo, ans \in AllAnswers(variant) :
    \E w \in {process_file(variant, World(p), dry_run, p, ans)} :
        /\ Answered(w, ans, IF p \in DOMAIN fs /\ fs[p].fp # NoFp
                            THEN Len(Lookup(fs[p].fp).cands) ELSE 0)
        /\ \A q \in DOMAIN w.fs : w.fs[q].mtime <= MaxMtime

\* The scan loop is a sequential for loop over a list built before it
\* starts: while the list is not exhausted the next iteration is taken
\* (every prompt being answered), and after the last one the run ends.
\* The second conjunct is WF_vars(Process) written out, with RunCanGoOn
\* for ENABLED <<Process>>_vars (the two agree: Process is guarded by
\* phase = "run" and a file of todo, and ProcessEnabled holds wherever
\* RunCanGoOn does).
SpecLive ==
    /\ Spec
    /\ WF_vars(EndRun)
    /\ ([]<>~RunCanGoOn \/ []<><<Process>>_vars)

----------------------------------------------------------------------------
(* The generations that match by similarity alone (Ref, A03), started on a *)
(* music folder that already holds three takes of one recording.           *)

InitTakes ==
    /\ variant \in {"Ref", "A03"}
    /\ dry_run = FALSE
    /\ root = "mounted"
    /\ \E score \in [1..3 -> 1..MaxScore] :
           fs = [p \in {InPath(Stems[i]) : i \in 1..3} |->
                   LET i == CHOOSE k \in 1..3 : p = InPath(Stems[k])
                   IN  [fp |-> Takes[i], score |-> score[i], mtime |-> 0]]
    /\ schema = TRUE
    /\ db = EmptyCatalog
    /\ cur = EmptyCatalog
    /\ commits = <<>>
    /\ moves = <<>>
    /\ last = Report("init", NoPath, NoFile, World(NoPath), "mounted", <<>>,
                     "none")
    /\ phase = "down"
    /\ todo = {}
    /\ runs = 0
    /\ prev = EmptyCatalog
    /\ steady = FALSE
    /\ dropped = 3

NextTakes == Startup \/ Process \/ EndRun

SpecTakes == InitTakes /\ [][NextTakes]_vars

----------------------------------------------------------------------------
(* The generations that deduplicate by recording id (A06, A10, A11),       *)
(* started on a music folder that holds one file per stem, all of the same *)
(* recording and fingerprint.                                              *)

InitRepeats ==
    /\ variant \in {"A06", "A10", "A11"}
    /\ dry_run = FALSE
    /\ root = "mounted"
    /\ \E score \in [DOMAIN Stems -> 1..MaxScore] :
           fs = [p \in {InPath(Stems[i]) : i \in DOMAIN Stems} |->
                   LET i == CHOOSE k \in DOMAIN Stems : p = InPath(Stems[k])
                   IN  [fp |-> FC, score |-> score[i], mtime |-> 0]]
    /\ schema = TRUE
    /\ db = EmptyCatalog
    /\ cur = EmptyCatalog
    /\ commits = <<>>
    /\ moves = <<>>
    /\ last = Report("init", NoPath, NoFile, World(NoPath), "mounted", <<>>,
                     "none")
    /\ phase = "down"
    /\ todo = {}
    /\ runs = 0
    /\ prev = EmptyCatalog
    /\ steady = FALSE
    /\ dropped = Len(Stems)

SpecRepeats == InitRepeats /\ [][NextTakes]_vars

----------------------------------------------------------------------------
(* The generations that keep a fingerprint history (A10, A11), started on  *)
(* a music folder that holds two encodings of one recording.               *)

InitHistory ==
    /\ variant \in {"A10", "A11"}
    /\ dry_run = FALSE
    /\ root = "mounted"
    /\ \E fp1 \in {FA, FG}, fp2 \in {FA, FG},
          q1 \in 1..MaxScore, q2 \in 1..MaxScore :
           fs = Put(Put(<<>>, InPath(Stems[1]),
                        [fp |-> fp1, score |-> q1, mtime |-> 0]),
                    InPath(Stems[2]),
                    [fp |-> fp2, score |-> q2, mtime |-> 0])
    /\ schema = TRUE
    /\ db = EmptyCatalog
    /\ cur = EmptyCatalog
    /\ commits = <<>>
    /\ moves = <<>>
    /\ last = Report("init", NoPath, NoFile, World(NoPath), "mounted", <<>>,
                     "none")
    /\ phase = "down"
    /\ todo = {}
    /\ runs = 0
    /\ prev = EmptyCatalog
    /\ steady = FALSE
    /\ dropped = 2

SpecHistory == InitHistory /\ [][NextTakes]_vars

----------------------------------------------------------------------------
(* Runs over files that fail: mutagen cannot read the attributes (no        *)
(* score), fpcalc cannot fingerprint the file (no fingerprint), the lookup  *)
(* raises (FE), or the file is removed after the directory scan.            *)

Conditions ==
    {[fp |-> FA, score |-> 1, mtime |-> 0],
     [fp |-> FC, score |-> 2, mtime |-> 0],
     [fp |-> FA, score |-> NoNum, mtime |-> 0],
     [fp |-> NoFp, score |-> 1, mtime |-> 0],
     [fp |-> FE, score |-> 1, mtime |-> 0]}

InitFaults ==
    /\ variant \in Variants
    /\ dry_run = FALSE
    /\ root = "mounted"
    /\ \E c1 \in Conditions, c2 \in Conditions :
           fs = Put(Put(<<>>, InPath(Stems[1]), c1), InPath(Stems[2]), c2)
    /\ schema = TRUE
    /\ db = EmptyCatalog
    /\ cur = EmptyCatalog
    /\ commits = <<>>
    /\ moves = <<>>
    /\ last = Report("init", NoPath, NoFile, World(NoPath), "mounted", <<>>,
                     "none")
    /\ phase = "down"
    /\ todo = {}
    /\ runs = 0
    /\ prev = EmptyCatalog
    /\ steady = FALSE
    /\ dropped = 2

\* a file of the scan list is removed before its turn
Vanish ==
    /\ phase = "run"
    /\ runs = 0
    /\ \E p \in todo \cap DOMAIN fs :
           fs' = [q \in DOMAIN fs \ {p} |-> fs[q]]
    /\ UNCHANGED <<variant, dry_run, root, schema, db, cur, commits, moves,
                   last, phase, todo, runs, prev, steady, dropped>>

NextFaults == Startup \/ Process \/ EndRun \/ Vanish

SpecFaults == InitFaults /\ [][NextFaults]_vars

----------------------------------------------------------------------------
(* advanced_library_manager.py ("ALM"): every scanned file is first renamed *)
(* after its title tag, then deduplicated by exact fingerprint.  A file of  *)
(* the volume carries its title here ("" when it has none).                 *)

\* rename_audio_by_title(file_path): safe_rename is called with
\* dry_run=False and os.rename follows unconditionally; a name that is
\* already the title collides with itself and gets a counter
rename_audio_by_title(w, dry, file_path) ==
    IF ~Exists(w, file_path) \/ w.fs[file_path].title = ""
    THEN Ret(w, NoPath)
    ELSE LET new_path == [file_path EXCEPT ![3] = w.fs[file_path].title,
                                          ![4] = 0]
             resolved_path == get_safe_path(w, new_path)
         IN  Ret(fs_move(w, file_path, resolved_path), resolved_path)

\* SELECT path, score FROM files WHERE fingerprint = ? AND processed = 1
alm_existing(c, fp) ==
    SelectSeq(c.files, LAMBDA r : r.fingerprint = fp /\ r.processed = 1)

\* UPDATE files SET path = ?, score = ? WHERE fingerprint = ?
alm_update(c, fp, path, score) ==
    [c EXCEPT !.files = [i \in DOMAIN @ |->
        IF @[i].fingerprint = fp
        THEN [@[i] EXCEPT !.path = path, !.score = score]
        ELSE @[i]]]

alm_row(path, file) ==
    Row(path, file.fp, file.score, NULL, NULL, 1, 0, NoNum)

\* the lookup and the row of the winner
alm_catalogue(w, file_path, file) ==
    IF Lookup(file.fp).ok
    THEN Decide(commit(exec(w, sql_replace_file("ALM", w.cur,
                                                alm_row(file_path, file)))),
                Outcome("kept", NoPath, NoPath, file_path))
    ELSE Skip(w, NoResult(file.fp))

\* one iteration of the loop of process_library()
alm_process_file(w, dry, file_path1) ==
    LET renamed == rename_audio_by_title(w, dry, file_path1)
        w1 == renamed.w
        file_path == renamed.ret
        file == w1.fs[file_path]
        rows == alm_existing(w1.cur, file.fp)
        existing == rows[1]
        old_to == get_safe_path(w1, DupPath(existing.path, 0))
        new_to == get_safe_path(w1, DupPath(file_path, 0))
    IN  IF file_path = NoPath THEN Skip(w1, "untitled")
        ELSE IF Seen(w1.cur, file_path) THEN Skip(w1, "seen")
        ELSE IF file.fp = NoFp THEN Skip(w1, "nofp")
        ELSE IF unscoreable(file.score) THEN Skip(w1, "unscoreable")
        ELSE IF rows = <<>> THEN alm_catalogue(w1, file_path, file)
        ELSE IF file.score > existing.score
        THEN IF dry THEN alm_catalogue(w1, file_path, file)
             ELSE IF ~Exists(w1, existing.path)
             THEN Skip(w1, "error")        \* shutil.move raises
             ELSE IF \E r \in Range(w1.cur.files) :
                        r.fingerprint = file.fp /\ r.path # existing.path
             THEN Skip(fs_move(w1, existing.path, old_to), "error")
                                          \* UNIQUE constraint failed
             ELSE alm_catalogue(
                      Decide(exec(fs_move(w1, existing.path, old_to),
                                  alm_update(w1.cur, file.fp, file_path,
                                             file.score)),
                             Outcome("upgrade", existing.path, old_to,
                                     file_path)),
                      file_path, file)
        ELSE Decide(commit(exec(IF dry THEN w1
                                ELSE fs_move(w1, file_path, new_to),
                                sql_replace_file("ALM", w1.cur,
                                                 alm_row(new_to, file)))),
                    Outcome("duplicate", NoPath, NoPath, new_to))

Titles == {"", "T1", "T2"}

InitAdvanced ==
    /\ variant = "ALM"
    /\ dry_run = FALSE
    /\ root = "mounted"
    /\ \E s1 \in {"f1", "T1"}, t1 \in Titles, t2 \in Titles,
          fp1 \in {FA, FC}, fp2 \in {FA, FC},
          q1 \in 1..MaxScore, q2 \in 1..MaxScore :
           fs = Put(Put(<<>>, InPath(s1),
                        [fp |-> fp1, score |-> q1, mtime |-> 0,
                         title |-> t1]),
                    InPath("f2"),
                    [fp |-> fp2, score |-> q2, mtime |-> 0, title |-> t2])
    /\ schema = TRUE
    /\ db = EmptyCatalog
    /\ cur = EmptyCatalog
    /\ commits = <<>>
    /\ moves = <<>>
    /\ last = Report("init", NoPath, NoFile, World(NoPath), "mounted", <<>>,
                     "none")
    /\ phase = "down"
    /\ todo = {}
    /\ runs = 0
    /\ prev = EmptyCatalog
    /\ steady = FALSE
    /\ dropped = 2

ProcessAdvanced ==
    /\ phase = "run"
    /\ \E p \in todo :
       \E w \in {alm_process_file(World(p), dry_run, p)} :
         /\ fs' = w.fs
         /\ db' = w.db
         /\ cur' = w.cur
         /\ commits' = w.commits
         /\ moves' = w.moves
         /\ last' = Report("file", p, IF p \in DOMAIN fs THEN fs[p]
                                      ELSE NoFile, w, root, <<>>, "none")
         /\ todo' = todo \ {p}
    /\ steady' = steady
    /\ UNCHANGED <<variant, dry_run, root, schema, dropped, phase, runs,
                   prev>>

NextAdvanced == Startup \/ ProcessAdvanced \/ EndRun

SpecAdvanced == InitAdvanced /\ [][NextAdvanced]_vars

----------------------------------------------------------------------------
(* The preview player of A06..A11.  The position of the run is kept in     *)
(* last: pc is "loop" between two files, "input" while input() waits at a  *)
(* prompt, "exited" when the process has ended; player_process is the      *)
(* attribute of that name, "None" or "running".                            *)

\* _stop_audio(): terminate, wait, kill; player_process = None
stop_audio(s) == [s EXCEPT !.player_process = "None"]

\* _play_audio(file_path): the old player is stopped, a new one is started
\* when one of the command line players is installed
play_audio(s, found) ==
    IF found THEN [stop_audio(s) EXCEPT !.player_process = "running"]
    ELSE stop_audio(s)

\* the file is done with: the loop goes on to the next one
next_file(s) == [s EXCEPT !.pc = "loop", !.prompt = "none",
                          !.files = @ - 1, !.current_page = 0]

\* the process ends
exited(s) == [s EXCEPT !.pc = "exited", !.prompt = "none"]

\* what is typed at input(): a key, end of input (EOFError) or an
\* interrupt (KeyboardInterrupt)
PromptKeys == {"n", "o", "s", "q", "p", "0", "1", "x", "EOF", "INT"}

\* _prompt_dedup_resolution after _play_audio: one round of its loop.
\* Called by A06 only (A10 and A11 define it and never call it); there is
\* no try/finally around input().  The set of the possible next positions.
prompt_dedup_resolution(v, s, key) ==
    IF key \in {"n", "o", "s"} THEN {next_file(stop_audio(s))}
    ELSE IF key = "q" /\ v # "A06" THEN {exited(stop_audio(s))}
    ELSE IF key = "EOF"
    THEN {next_file(s)}        \* caught by "except Exception" of the loop
    ELSE IF key = "INT"
    THEN IF v = "A06"           \* no finally in the script: __del__ may run
         THEN {exited(s), exited(stop_audio(s))}
         ELSE {exited(stop_audio(s))}        \* finally: manager.close()
    ELSE {s}

\* _prompt_user_selection after _play_audio: one round of its loop, inside
\* try ... finally: self._stop_audio()
prompt_user_selection(v, s, key) ==
    IF key \in {"0", "1", "EOF"} THEN {next_file(stop_audio(s))}
    ELSE IF key = "INT" THEN {exited(stop_audio(s))}
    ELSE IF v = "A06" THEN {s}
    ELSE IF key = "q" THEN {exited(stop_audio(s))}    \* close(); sys.exit(0)
    ELSE IF key = "n" /\ s.current_page < s.total_pages - 1
    THEN {[s EXCEPT !.current_page = @ + 1]}
    ELSE IF key = "p" /\ s.current_page > 0
    THEN {[s EXCEPT !.current_page = @ - 1]}
    ELSE {s}

MaxQueue == 3      \* files still to be processed
MaxPages == 3      \* pages of candidates shown by the selection prompt

InitPrompts ==
    /\ variant \in {"A06", "A10", "A11"}
    /\ dry_run = FALSE
    /\ root = "mounted"
    /\ fs = <<>>
    /\ schema = TRUE
    /\ db = EmptyCatalog
    /\ cur = EmptyCatalog
    /\ commits = <<>>
    /\ moves = <<>>
    /\ \E n \in 1..MaxQueue :
           last = [kind |-> "prompt", pc |-> "loop", prompt |-> "none",
                   player_process |-> "None", files |-> n,
                   current_page |-> 0, total_pages |-> 1]
    /\ phase = "run"
    /\ todo = {}
    /\ runs = 0
    /\ prev = EmptyCatalog
    /\ steady = FALSE
    /\ dropped = 0

\* the next file is processed: without a question, or up to the input() of
\* one of the two prompts
AskPrompt ==
    /\ last.kind = "prompt" /\ last.pc = "loop" /\ last.files > 0
    /\ \/ last' = next_file(last)
       \/ \E found \in BOOLEAN :
             /\ variant = "A06"
             /\ last' = [play_audio(last, found) EXCEPT
                            !.pc = "input", !.prompt = "dedup"]
       \/ \E found \in BOOLEAN,
             pages \in 1..(IF variant = "A06" THEN 1 ELSE MaxPages) :
             last' = [play_audio(last, found) EXCEPT
                        !.pc = "input", !.prompt = "select",
                        !.total_pages = pages]
    /\ UNCHANGED <<variant, dry_run, root, fs, schema, db, cur, commits,
                   moves, phase, todo, runs, prev, steady, dropped>>

\* input() returns or raises
AnswerPrompt ==
    /\ last.kind = "prompt" /\ last.pc = "input"
    /\ \E key \in PromptKeys :
          last' \in (IF last.prompt = "dedup"
                     THEN prompt_dedup_resolution(variant, last, key)
                     ELSE prompt_user_selection(variant, last, key))
    /\ UNCHANGED <<variant, dry_run, root, fs, schema, db, cur, commits,
                   moves, phase, todo, runs, prev, steady, dropped>>

\* the scan list is exhausted: A10 and A11 end in "finally:
\* manager.close()", A06 only has __del__, which may not run at exit
Finish ==
    /\ last.kind = "prompt" /\ last.pc = "loop" /\ last.files = 0
    /\ last' \in (IF variant = "A06"
                   THEN {exited(last), exited(stop_audio(last))}
                   ELSE {exited(stop_audio(last))})
    /\ UNCHANGED <<variant, dry_run, root, fs, schema, db, cur, commits,
                   moves, phase, todo, runs, prev, steady, dropped>>

NextPrompts == AskPrompt \/ AnswerPrompt \/ Finish

SpecPrompts == InitPrompts /\ [][NextPrompts]_vars

----------------------------------------------------------------------------
(* The chunking function on its own: any generation, a fingerprint of any   *)
(* length up to MaxLen whose code units are all different, any chunk size   *)
(* up to MaxChunk.                                                          *)

InitChunks ==
    /\ variant \in Variants
    /\ dry_run = FALSE
    /\ root = "mounted"
    /\ fs = <<>>
    /\ schema = TRUE
    /\ db = EmptyCatalog
    /\ cur = EmptyCatalog
    /\ commits = <<>>
    /\ moves = <<>>
    /\ last = [kind |-> "init"]
    /\ phase = "down"
    /\ todo = {}
    /\ runs = 0
    /\ prev = EmptyCatalog
    /\ steady = FALSE
    /\ dropped = 0

Chunk ==
    /\ \E n \in 0..MaxLen, size \in 1..MaxChunk :
           last' = [kind |-> "blocks",
                    fingerprint |-> [i \in 1..n |-> i],
                    size |-> size,
                    blocks |-> get_blocks_sized(variant, [i \in 1..n |-> i],
                                                size)]
    /\ UNCHANGED <<variant, dry_run, root, fs, schema, db, cur, commits,
                   moves, phase, todo, runs, prev, steady, dropped>>

SpecChunks == InitChunks /\ [][Chunk]_vars

----------------------------------------------------------------------------
(* The similarity ratio on its own: two fingerprints of any length up to    *)
(* MaxFpLen over three code units, compared in both orders and with         *)
(* themselves.                                                              *)

CodeUnits == {"a", "b", "c"}

Strings == UNION {[1..n -> CodeUnits] : n \in 0..MaxFpLen}

InitRatio ==
    /\ variant = "A11"
    /\ dry_run = FALSE
    /\ root = "mounted"
    /\ fs = <<>>
    /\ schema = TRUE
    /\ db = EmptyCatalog
    /\ cur = EmptyCatalog
    /\ commits = <<>>
    /\ moves = <<>>
    /\ \E a \in Strings, b \in Strings :
           last = [kind |-> "input", a |-> a, b |-> b]
    /\ phase = "down"
    /\ todo = {}
    /\ runs = 0
    /\ prev = EmptyCatalog
    /\ steady = FALSE
    /\ dropped = 0

Compare ==
    /\ last.kind = "input"
    /\ last' = [kind |-> "ratio", a |-> last.a, b |-> last.b,
                ab |-> ratio(last.a, last.b), ba |-> ratio(last.b, last.a),
                aa |-> ratio(last.a, last.a)]
    /\ UNCHANGED <<variant, dry_run, root, fs, schema, db, cur, commits,
                   moves, phase, todo, runs, prev, steady, dropped>>

SpecRatio == InitRatio /\ [][Compare]_vars

----------------------------------------------------------------------------
(* The quality score on its own.  A score is kept as a sequence of limbs,   *)
(* most significant first, so that sums beyond 2^31 stay exact; scores of   *)
(* one scorer have the same number of limbs.                                *)

\* the technical attributes mutagen reports for a file
Attributes ==
    [ext : {".mp3", ".flac", ".wav"},
     bits : {16, 24},
     sample_rate : {44100, 48000, 192000},
     bitrate : {128000, 320000, 900000},
     file_size : {5000000, 6000000}]

\* a > b for two scores of the same scorer
RECURSIVE Greater(_, _)
Greater(a, b) ==
    IF a = <<>> THEN FALSE
    ELSE IF Head(a) # Head(b) THEN Head(a) > Head(b)
    ELSE Greater(Tail(a), Tail(b))

\* the scorer with the lossless and the lossy base equal
get_audio_stats_flat(x) ==
    <<10000000 + x.bits * 100000 + x.sample_rate + (x.bitrate \div 1000)>>

\* refactored_music_management.py: int(base + bits * 100_000 + sample_rate
\* + bitrate / 1000), base 20_000_000 for .flac, .wav, .alac
get_audio_stats(x) ==
    <<(IF x.ext \in {".flac", ".wav", ".alac"} THEN 2 ELSE 1) * 10000000
        + x.bits * 100000 + x.sample_rate + (x.bitrate \div 1000)>>

\* A03: the same sum, .aiff lossless too
calculate_score(x) ==
    <<(IF x.ext \in {".flac", ".wav", ".alac", ".aiff"} THEN 20000000
       ELSE 10000000)
        + x.bits * 100000 + x.sample_rate + (x.bitrate \div 1000)>>

\* A04..A11: fmt_score + bit_score + size_score + extras in floating point.
\* Limbs: units of 10^12, units of 1, units of 10^-9.  The integer part is
\* exact; adding extras rounds to the spacing of doubles at that magnitude
\* (0.125 below 2^50, 0.25 from 2^50 on), ties to even.
calculate_quality(x) ==
    LET is_lossless == x.ext \in {".flac", ".wav", ".m4a"}
        whole == (IF is_lossless THEN 2000 ELSE 1000) + x.bits
        extras == x.sample_rate * 1000 + x.bitrate
        ulp == IF whole >= 1126 THEN 250000000 ELSE 125000000
        k == extras \div ulp
        r == extras % ulp
        up == 2 * r > ulp \/ (2 * r = ulp /\ k % 2 = 1)
        frac == (IF up THEN k + 1 ELSE k) * ulp
    IN  IF frac >= 1000000000
        THEN <<whole, x.file_size + 1, frac - 1000000000>>
        ELSE <<whole, x.file_size, frac>>

\* music_manager.py: base + sample_rate // 100 + bitrate // 1000
get_quality_metrics(x) ==
    <<(IF x.ext \in {".flac", ".wav", ".alac"} THEN 10000 ELSE 1000)
        + (x.sample_rate \div 100) + (x.bitrate \div 1000)>>

quality(scorer, x) ==
    CASE scorer = "Ref" -> get_audio_stats(x)
      [] scorer = "A03" -> calculate_score(x)
      [] scorer = "A11" -> calculate_quality(x)
      [] scorer = "music_manager" -> get_quality_metrics(x)

InitScore ==
    /\ variant = "A11"
    /\ dry_run = FALSE
    /\ root = "mounted"
    /\ fs = <<>>
    /\ schema = TRUE
    /\ db = EmptyCatalog
    /\ cur = EmptyCatalog
    /\ commits = <<>>
    /\ moves = <<>>
    /\ \E scorer \in {"Ref", "A03", "A11", "music_manager"},
          x \in Attributes, y \in Attributes :
           last = [kind |-> "attrs", scorer |-> scorer, x |-> x, y |-> y]
    /\ phase = "down"
    /\ todo = {}
    /\ runs = 0
    /\ prev = EmptyCatalog
    /\ steady = FALSE
    /\ dropped = 0

Score ==
    /\ last.kind = "attrs"
    /\ last' = [kind |-> "scores", scorer |-> last.scorer,
                x |-> last.x, y |-> last.y,
                sx |-> quality(last.scorer, last.x),
                sy |-> quality(last.scorer, last.y)]
    /\ UNCHANGED <<variant, dry_run, root, fs, schema, db, cur, commits,
                   moves, phase, todo, runs, prev, steady, dropped>>

SpecScore == InitScore /\ [][Score]_vars

----------------------------------------------------------------------------
(* Properties of the startup path.                                         *)

\* C1: when the media root does not exist at startup, the constructor (with
\* its configuration validation) followed by prune_database removes no row
\* of the catalog and no entry of the index.
C1_PruneSkippedWithoutRoot ==
    [][(Startup /\ root = "missing")
          => (db'.files = db.files /\ db'.index = db.index)]_vars

----------------------------------------------------------------------------
(* Properties of the committed catalog.                                    *)

\* a canonical Track: processed and not tagged as a duplicate
Canonical(r) == r.processed = 1 /\ r.is_duplicate # 1

\* C2: the committed catalog holds at most one canonical Track for a
\* recording (acoustid_id) within an album (album_id), whatever files were
\* processed, with one or several albums selected, in dry-run or not.
C2_OneCanonicalPerRecordingAndAlbum ==
    \A i, j \in DOMAIN db.files :
        (/\ i # j
         /\ Canonical(db.files[i])
         /\ Canonical(db.files[j])
         /\ db.files[i].acoustid_id # NULL
         /\ db.files[i].album_id # NULL
         /\ db.files[i].acoustid_id = db.files[j].acoustid_id)
        => db.files[i].album_id # db.files[j].album_id

\* every catalog state made durable by the step just taken, and the current one
Committed == Range(commits) \cup {db}

\* C3: in every committed catalog state, every index entry's path is the
\* path of an existing catalog row.
C3_IndexPathsHaveRows ==
    \A c \in Committed : IndexPaths(c) \subseteq Paths(c)

\* a canonical Track of generation v: processed (A03 has no such column),
\* not a duplicate, with a fingerprint
CanonicalTrack(v, r) ==
    /\ r.processed = 1 \/ v = "A03"
    /\ r.is_duplicate # 1
    /\ r.fingerprint # NoFp

BlocksUnder(c, p) == {c.index[i][1] : i \in {k \in DOMAIN c.index : c.index[k][2] = p}}

\* C4: in every committed catalog state, every canonical Track has the
\* chunks of its fingerprint in the index under its own catalog path.
C4_CanonicalTracksAreIndexed ==
    HasPathIndex(variant) =>
        \A c \in Committed : \A i \in DOMAIN c.files :
            CanonicalTrack(variant, c.files[i]) =>
                Range(get_blocks(variant, c.files[i].fingerprint))
                    \subseteq BlocksUnder(c, c.files[i].path)

\* what the catalog c holds for the item at path p
RowsAt(c, p) == {r \in Range(c.files) : r.path = p}

ItemPaths(c) == Paths(c) \cup IndexPaths(c)

\* transaction k of the sequence of catalog versions V changed the row,
\* resp. the chunks, of the item at p
RowChanged(V, k, p) == RowsAt(V[k], p) # RowsAt(V[k + 1], p)

IndexChanged(V, k, p) == IndexOf(V[k], p) # IndexOf(V[k + 1], p)

\* the row and the chunks of every item both written between V[1] and the
\* end of V change in the same transactions
Atomic(V) ==
    LET T == 1..(Len(V) - 1)
        P == UNION {ItemPaths(V[k]) : k \in DOMAIN V}
    IN  \A p \in P :
            (/\ \E k \in T : RowChanged(V, k, p)
             /\ \E k \in T : IndexChanged(V, k, p))
            => \A k \in T : RowChanged(V, k, p) <=> IndexChanged(V, k, p)

\* C5: the row upsert and the index delete/reinsert of one item become
\* durable in one transaction: in no step is there a commit that makes the
\* change of the chunks of an item durable without the change of its row,
\* or the reverse.  Demoting an item (index strip plus row update) is
\* included.  The versions are what the connection held before the step,
\* every state the step committed, and what the connection holds after it.
C5_ItemMutationsAreAtomic ==
    [][Atomic(<<cur>> \o commits' \o <<cur'>>)]_vars

----------------------------------------------------------------------------
(* Properties of the step that resolves one file.                          *)

\* the locations the step just taken moved a file away from and left empty
MovedAwayFrom ==
    {moves[i][2] : i \in {k \in DOMAIN moves :
        moves[k][1] = "move" /\ moves[k][2] \notin DOMAIN fs}}

\* C6: in the committed state after an item has been resolved, no catalog
\* row is keyed by a location the engine has just moved a file away from:
\* the row follows the file to the organised layout or to quarantine.
C6_RowsFollowMovedFiles ==
    last.kind = "file" => MovedAwayFrom \cap Paths(db) = {}

----------------------------------------------------------------------------
(* Properties of a whole run.                                              *)

BagOf(s) == [x \in Range(s) |-> Cardinality({i \in DOMAIN s : s[i] = x})]

\* the same tables, whatever the order of their rows
SameCatalog(a, b) ==
    /\ Range(a.files) = Range(b.files)
    /\ BagOf(a.index) = BagOf(b.index)
    /\ Range(a.albums) = Range(b.albums)
    /\ a.known_fingerprints = b.known_fingerprints
    /\ BagOf(a.known_blocks) = BagOf(b.known_blocks)

\* C7: a run that follows a completed run, in the same mode, with no file
\* added, the volume untouched and no question asked, ends with the files,
\* index, album and fingerprint-history tables it started from.
C7_SecondRunChangesNothing ==
    [][(EndRun /\ steady) => SameCatalog(db', prev)]_vars

----------------------------------------------------------------------------
(* Properties of the outcome of a deduplication decision, read after the   *)
(* step that processed the file, in the catalog as the connection sees it. *)

\* the outcomes of the step just taken that carry decision d
Kept(d) == {o \in Range(last.out) : o.decision = d}

OnDiskIn(p, dir) == p # NoPath /\ p \in DOMAIN fs /\ Dir(p) = dir

\* the files table has an is_duplicate column in Ref and A03 only; where it
\* is absent a row cannot be tagged and the tag is not asked for
TaggedDuplicate(v, r) == r.is_duplicate = 1 \/ v \notin {"Ref", "A03"}

\* C8: after a keep-new decision (outside dry-run) the old file is in
\* quarantine and the new file is canonical: a catalog row with processed=1
\* and is_duplicate # 1 is keyed by its path, and the index has entries
\* under that path.
C8_KeepNewMakesNewCanonical ==
    (last.kind = "file" /\ ~dry_run) =>
        \A o \in Kept("keep_new") :
            /\ OnDiskIn(o.oldTo, "dup")
            /\ \E r \in RowsAt(cur, o.new) :
                   (r.processed = 1 \/ variant = "A03") /\ r.is_duplicate # 1
            /\ HasPathIndex(variant) => o.new \in IndexPaths(cur)

\* C9: after a keep-new decision (outside dry-run) the old Track is demoted,
\* not forgotten: a catalog row for it still exists (under its old or its
\* quarantine path) with is_duplicate=1 (where the schema has the column),
\* and the index has no entry under its quarantine path, nor under its old
\* path unless the new file took it.
C9_KeepNewDemotesOld ==
    (last.kind = "file" /\ ~dry_run) =>
        \A o \in Kept("keep_new") :
            /\ \E r \in RowsAt(cur, o.old) \cup RowsAt(cur, o.oldTo) :
                   TaggedDuplicate(variant, r) /\ r.path # o.new
            /\ o.oldTo \notin IndexPaths(cur)
            /\ o.old # o.new => o.old \notin IndexPaths(cur)

\* the catalog the next startup leaves, the connection's writes committed
AfterStartup ==
    construct(variant, [World(NoPath) EXCEPT !.db = cur], TRUE).w.db

\* C10: after a keep-old decision (outside dry-run) the new file is in
\* quarantine, the catalog holds a row for it (under the path it was scanned
\* at or its quarantine path) with processed=1 and is_duplicate=1 (where
\* the schema has the columns), and that row is still in the catalog after
\* the next startup.
C10_KeepOldRowSurvivesStartup ==
    (last.kind = "file" /\ ~dry_run) =>
        \A o \in Kept("keep_old") :
            /\ OnDiskIn(o.new, "dup")
            /\ \E r \in RowsAt(cur, last.path) \cup RowsAt(cur, o.new) :
                   /\ r.processed = 1 \/ variant = "A03"
                   /\ TaggedDuplicate(variant, r)
                   /\ r \in Range(AfterStartup.files)

----------------------------------------------------------------------------
(* Properties of the similarity decision (Ref, A03 and A06; A10 and A11    *)
(* never compare a new file with the catalogued ones).                     *)

\* the catalogued files the matcher compares a fingerprint with: the owners
\* of a shared chunk that have a row (in Ref, a row with is_duplicate = 0)
Compared(v, c, fp) ==
    {p \in Range(Owners(c.index, get_blocks(v, fp))) :
        HasRow(c, p) /\ (v = "Ref" => GetRow(c, p).is_duplicate = 0)}

Similarity(c, fp, p) == Ratio(fp, GetRow(c, p).fingerprint)

Matching(v, c, fp, h) ==
    {p \in Compared(v, c, fp) : RatioGE(Similarity(c, fp, p), h)}

\* this step is one iteration of the scan loop
ProcessStep == phase = "run" /\ last'.kind = "file" /\ last'.path \in todo

\* ... in which the file was fingerprinted and compared
Compares(v) ==
    /\ ProcessStep
    /\ v \in {"Ref", "A03", "A06"}
    /\ last'.out # <<>> => last'.out[1].decision \notin {"seen", "gone", "crash"}

AskBand(v) ==
    /\ Compares(v)
    /\ Matching(v, cur, last'.file.fp, SIMILARITY_ASK(v)) # {}
    /\ Matching(v, cur, last'.file.fp, SIMILARITY_AUTO) = {}

\* the keys each prompt accepts and the action each one names
Names(v, key) ==
    IF v = "A06"
    THEN CASE key = "n" -> <<"new", "keep_new">>
           [] key = "o" -> <<"old", "keep_old">>
           [] key = "s" -> <<"skip", "skip">>
           [] OTHER -> <<>>
    ELSE CASE key = "1" -> <<"1", "keep_new">>
           [] key = "2" -> <<"2", "keep_old">>
           [] key = "s" -> <<"s", "skip">>
           [] OTHER -> <<>>

SentToDups(ms) == {m[2] : m \in {x \in Range(ms) : x[1] = "move" /\ Dir(x[3]) = "dup"}}

Times(s, x) == Cardinality({i \in DOMAIN s : s[i] = x})

\* what the decisions after the first one (those by recording id) send to
\* the duplicates
LaterSent(r) ==
    {r.out[i].old : i \in {j \in 2..Len(r.out) :
                              r.out[j].decision = "keep_new"}}
        \cup {r.path : i \in {j \in 2..Len(r.out) :
                                 r.out[j].decision = "keep_old"}}

AutoBand(v) ==
    /\ Compares(v)
    /\ Matching(v, cur, last'.file.fp, SIMILARITY_AUTO) # {}

\* C12: when the best similarity of a compared file reaches the auto
\* threshold, no duplicate prompt is shown and the decision follows from the
\* two quality scores alone: the file with the higher score is kept and only
\* the other one is sent to the duplicates (with equal scores the
\* generations differ in which one they keep).
C12_AutoBandKeepsTheBetterFile ==
    [][AutoBand(variant) =>
         LET r == last'
             o == r.out[1]
         IN  /\ Times(r.asked, "dedup") = 0
             /\ r.typed = <<>>
             /\ r.out # <<>>
             /\ o.old \in Matching(variant, cur, r.file.fp, SIMILARITY_AUTO)
             /\ GetRow(cur, o.old).score # NoNum
             /\ r.file.score > GetRow(cur, o.old).score =>
                    o.decision = "keep_new"
             /\ GetRow(cur, o.old).score > r.file.score =>
                    o.decision = "keep_old"
             /\ o.decision = "keep_new" =>
                    /\ SentToDups(moves') \subseteq {o.old} \cup LaterSent(r)
                    /\ (~dry_run /\ o.old \in DOMAIN fs) =>
                           o.old \in SentToDups(moves')
             /\ o.decision = "keep_old" =>
                    /\ SentToDups(moves') \subseteq {r.path}
                    /\ ~dry_run => SentToDups(moves') = {r.path}]_vars

BelowAsk(v) ==
    /\ Compares(v)
    /\ Matching(v, cur, last'.file.fp, SIMILARITY_ASK(v)) = {}

\* the files and rows other than those of the file being processed
OtherFiles(f, p) == [q \in DOMAIN f \ {p} |-> f[q]]

OtherRows(c, p) == SelectSeq(c.files, LAMBDA r : r.path # p)

OtherIndex(c, p) == SelectSeq(c.index, LAMBDA e : e[2] # p)

\* C13: when the index yields no candidate for a compared file, or none
\* whose similarity reaches the ask threshold, the file is treated as
\* unique: no duplicate prompt is shown, no other file is moved, no other
\* row or index entry is changed or deleted, and the file is not sent to
\* the duplicates but goes on to be catalogued.
C13_BelowAskIsUnique ==
    [][BelowAsk(variant) =>
         LET r == last'
         IN  /\ Times(r.asked, "dedup") = 0
             /\ \A q \in DOMAIN OtherFiles(fs, r.path) :
                    q \in DOMAIN fs' /\ fs'[q].fp = fs[q].fp
             /\ \A i \in DOMAIN OtherRows(cur, r.path) :
                    OtherRows(cur, r.path)[i] \in Range(cur'.files)
             /\ \A i \in DOMAIN OtherIndex(cur, r.path) :
                    OtherIndex(cur, r.path)[i] \in Range(cur'.index)
             /\ SentToDups(moves') = {}
             /\ \A i \in DOMAIN r.out :
                    r.out[i].decision \notin {"keep_new", "keep_old"}]_vars

----------------------------------------------------------------------------
(* Properties of quitting at the selection prompt (A10, A11).              *)

\* the step in which the user answered quit: sys.exit(0) ends the run
QuitStep ==
    /\ ProcessStep
    /\ "select" \in Range(last'.asked)
    /\ phase' = "down"

\* C14: when the user answers quit at a prompt, the run stops (no file is
\* left to process) and nothing is half-applied for the file in hand: no
\* file was moved, copied or tagged, no row of files and no index entry was
\* added, changed or deleted, in the connection or durably.
C14_QuitLeavesNothingHalfDone ==
    [][QuitStep =>
         /\ todo' = {}
         /\ runs' = runs + 1
         /\ fs' = fs
         /\ moves' = <<>>
         /\ cur'.files = cur.files /\ cur'.index = cur.index
         /\ db'.files = db.files /\ db'.index = db.index]_vars

----------------------------------------------------------------------------
(* Properties of the startup prune (A03, A06, A10, A11; Ref has none).     *)

\* the step in which the manager is constructed with the music folder there
PruneStep ==
    /\ phase = "down"
    /\ last'.kind = "startup"
    /\ root = "mounted"
    /\ variant # "Ref"

OnDisk(p) == p \in DOMAIN fs

\* C15: with the music folder reachable, the startup prune removes exactly
\* the rows of files whose path does not exist on disk and every
\* fingerprint_index entry of those paths; the rows whose path exists and
\* their index entries are left as they were, and the result is committed.
C15_PruneRemovesExactlyTheMissing ==
    [][PruneStep =>
         /\ cur'.files = SelectSeq(db.files, LAMBDA r : OnDisk(r.path))
         /\ \A i \in DOMAIN db.index :
                (HasRow(db, db.index[i][2]) /\ ~OnDisk(db.index[i][2]))
                    => db.index[i] \notin Range(cur'.index)
         /\ SelectSeq(cur'.index, LAMBDA e : HasRow(cur', e[2]))
                = SelectSeq(db.index, LAMBDA e : HasRow(db, e[2])
                                                    /\ OnDisk(e[2]))
         /\ db' = cur'
         /\ fs' = fs]_vars

\* a prune that found a row to remove, with chunks indexed under its path,
\* next to a row that stays
C15_Witness ==
    /\ last.kind = "startup"
    /\ variant # "Ref"
    /\ last.root0 = "mounted"
    /\ \E r \in Range(prev.files) :
           /\ r.path \notin DOMAIN fs
           /\ r.path \in IndexPaths(prev)
           /\ ~HasRow(cur, r.path)
    /\ \E r \in Range(cur.files) : r.path \in IndexPaths(cur)

----------------------------------------------------------------------------
(* Properties of the two chunk indexes.                                    *)

\* the chunks stored for an owner, and how often each one is stored
ChunksOf(table, owner) ==
    BagOf(SelectSeq(table, LAMBDA e : e[2] = owner))

\* each chunk of the fingerprints fps, stored once for the owner
Once(v, fps, owner) ==
    [e \in {<<b, owner>> : b \in UNION {Range(get_blocks(v, f)) : f \in fps}}
        |-> 1]

\* the fingerprints recorded for a path (its row) and for a recording id
\* (its history)
RecordedAt(c, p) == {r.fingerprint : r \in RowsAt(c, p)} \ {NoFp}

RecordedFor(c, id) == {h[1] : h \in {k \in c.known_fingerprints : k[2] = id}}

\* C16: in every committed state the index rows of each owner are exactly
\* the chunks of the fingerprints recorded for it, each chunk once: for a
\* path of fingerprint_index the fingerprint of its row, for a recording id
\* of known_blocks the fingerprints of its history.  No chunk of another
\* fingerprint is left, none is missing, none is stored twice.
C16_IndexRowsAreTheRecordedChunks ==
    /\ \A p \in IndexPaths(db) :
           ChunksOf(db.index, p) = Once(variant, RecordedAt(db, p), p)
    /\ \A id \in {db.known_blocks[i][2] : i \in DOMAIN db.known_blocks} :
           ChunksOf(db.known_blocks, id)
               = Once(variant, RecordedFor(db, id), id)

\* the owners of a table that have a row for at least one chunk of f
Sharing(table, v, f) ==
    {table[i][2] : i \in {j \in DOMAIN table :
                            \E k \in DOMAIN get_blocks(v, f) :
                                get_blocks(v, f)[k] = table[j][1]}}

NoRepeat(s) == \A i, j \in DOMAIN s : s[i] = s[j] => i = j

\* C17: for every fingerprint f, the lookup in fingerprint_index and the
\* lookup in known_blocks return exactly the owners that have a row for at
\* least one chunk of f, each owner once: none that shares a chunk is left
\* out, none that shares no chunk is returned.
C17_LookupReturnsTheSharingOwners ==
    \A f \in Fingerprints :
        /\ Range(Owners(cur.index, get_blocks(variant, f)))
               = Sharing(cur.index, variant, f)
        /\ NoRepeat(Owners(cur.index, get_blocks(variant, f)))
        /\ Range(Owners(cur.known_blocks, get_blocks(variant, f)))
               = Sharing(cur.known_blocks, variant, f)
        /\ NoRepeat(Owners(cur.known_blocks, get_blocks(variant, f)))

\* an index with an owner that shares both chunks with FA, one that shares
\* only the first, and one that shares none
C17_Witness ==
    \E p, q \in IndexPaths(cur) :
        /\ Cardinality({i \in DOMAIN cur.index :
               cur.index[i][2] = p
               /\ cur.index[i][1] \in Range(get_blocks(variant, FA))}) = 2
        /\ q \notin Sharing(cur.index, variant, FA)
        /\ Sharing(cur.index, variant, FB) = {p}
        /\ Sharing(cur.index, variant, FC) = {q}

----------------------------------------------------------------------------
(* Properties of the chunking function.                                    *)

RECURSIVE Concat(_)
Concat(ss) == IF ss = <<>> THEN <<>> ELSE Head(ss) \o Concat(Tail(ss))

\* what the chunking function returned is the split, in order, of the first
\* cap * B code units of the fingerprint into consecutive chunks of B code
\* units, the last possibly shorter
ChunksOfPrefix(cap) ==
    last.kind = "blocks" =>
        LET f == last.fingerprint
            B == last.size
            blocks == last.blocks
            prefix == Slice(f, 0, cap * B)
        IN  /\ Len(blocks) <= cap
            /\ Len(blocks) = Min({cap, (Len(f) + B - 1) \div B})
            /\ \A k \in DOMAIN blocks :
                   /\ blocks[k] = Slice(prefix, (k - 1) * B, k * B)
                   /\ Len(blocks[k]) <= B
                   /\ k < Len(blocks) => Len(blocks[k]) = B
                   /\ blocks[k] # <<>>
            /\ Concat(blocks) = prefix
            /\ f = <<>> => blocks = <<>>

\* C18: for every fingerprint f and chunk size B, the chunking function
\* returns, in order, the consecutive non-overlapping chunks of length B (the
\* last possibly shorter) of the prefix of f of length 16*B: at most 16
\* chunks, min(16, ceil(len(f)/B)) of them, whose concatenation equals that
\* prefix; an empty fingerprint yields no chunk.
C18_ChunksOfThe16ChunkPrefix == ChunksOfPrefix(16)

\* C18, amended: the same with the cap of the installed generation, 8 chunks
\* in the first two generations and 16 chunks in the later ones.
C18_ChunksOfTheCappedPrefix == ChunksOfPrefix(MaxBlocks(variant))

\* a fingerprint longer than the cap, cut off at the cap, with a short last
\* chunk in sight: 8 chunks of 2 code units out of 17 code units
C18_Witness ==
    /\ last.kind = "blocks"
    /\ Len(last.fingerprint) = 17
    /\ last.size = 2
    /\ Len(last.blocks) = 8
    /\ last.blocks[8] = <<15, 16>>

----------------------------------------------------------------------------
(* Properties of the index-based match.                                    *)

\* the rows of catalog c, not flagged as duplicates, whose fingerprint equals
\* g except for its final characters, 1 to 4 of them, and is similar enough
\* to g to count as a match in generation v
NearRows(v, c, g) ==
    {i \in DOMAIN c.files :
        LET f == c.files[i].fingerprint
        IN  /\ f \in Fingerprints
            /\ c.files[i].is_duplicate # 1
            /\ f # g
            /\ Len(f) = Len(g)
            /\ Slice(f, 0, Len(f) - 4) = Slice(g, 0, Len(g) - 4)
            /\ RatioGE(Ratio(g, f), SIMILARITY_ASK(v))}

\* the path the match function of generation v returns for fingerprint g
MatchPath(v, c, g) ==
    IF v \in {"Ref", "A03"} THEN find_match(v, c, g)[1]
    ELSE find_local_fuzzy_match(v, c, g)[1]

\* C19: a catalogued fingerprint and a query fingerprint that are equal
\* except for their final characters (1 to 4 of them) are surfaced to each
\* other by the Blocking Index, and the match function returns the catalogued
\* file's path as the match.  Stated for the pairs similar enough to be a
\* match at all, and for the catalogs in which no other row competes for the
\* query; A10 keeps no Blocking Index of paths.
C19_FinalCharactersStillMatch ==
    variant # "A10" =>
        \A g \in Fingerprints :
            LET paths == {cur.files[i].path : i \in NearRows(variant, cur, g)}
            IN  (paths # {} /\ Compared(variant, cur, g) \subseteq paths) =>
                    /\ paths \subseteq
                           Range(Owners(cur.index, get_blocks(variant, g)))
                    /\ MatchPath(variant, cur, g) \in paths

\* C20: among all candidates returned by the Blocking Index, the matcher
\* selects the one with the maximum similarity ratio to the query fingerprint;
\* when several candidates share the maximum, the first one in iteration
\* order is selected.  Stated for each take as the query, whenever some
\* candidate is similar enough to be a match at all.
C20_MatcherSelectsTheMaximum ==
    \A g \in Range(Takes) :
        LET owners == Owners(cur.index, get_blocks(variant, g))
            cands == Compared(variant, cur, g)
            m == MatchPath(variant, cur, g)
            pos(p) == CHOOSE k \in DOMAIN owners : owners[k] = p
            sim(p) == Similarity(cur, g, p)
        IN  Matching(variant, cur, g, SIMILARITY_ASK(variant)) # {} =>
                /\ m \in cands
                /\ \A p \in cands : ~RatioGT(sim(p), sim(m))
                /\ \A p \in cands :
                       sim(p)[1] * sim(m)[2] = sim(m)[1] * sim(p)[2]
                           => pos(m) <= pos(p)

----------------------------------------------------------------------------
(* Properties of the similarity ratio.                                     *)

\* C21: for all fingerprints a and b over a bounded alphabet and length, the
\* similarity ratio (matching-blocks ratio 2*M/(len(a)+len(b)) as used by the
\* matcher) satisfies similarity(a, a) = 1.0 and similarity(a, b) =
\* similarity(b, a).
C21_SimilarityReflexiveAndSymmetric ==
    last.kind = "ratio" =>
        /\ last.aa[1] = last.aa[2]
        /\ last.ab[1] * last.ba[2] = last.ba[1] * last.ab[2]

----------------------------------------------------------------------------
(* Properties of the quality score.                                        *)

\* the rank of an attribute set: format class, bit depth, sample rate,
\* bitrate, file size
Rank(x) ==
    <<IF x.ext \in {".flac", ".wav"} THEN 1 ELSE 0,
      x.bits, x.sample_rate, x.bitrate, x.file_size>>

\* C22: the summed quality score orders files lexicographically by (format
\* class, bit depth, sample rate, bitrate, file size): for any two attribute
\* sets within the supported ranges, the file that is greater at the first
\* attribute where they differ has the strictly greater score, i.e. no
\* combination of lower-rank attributes overturns a higher rank.
C22_ScoreIsLexicographic ==
    (last.kind = "scores" /\ last.scorer \in {"Ref", "A03", "A11"}) =>
        (Greater(Rank(last.x), Rank(last.y)) => Greater(last.sx, last.sy))

\* C23: a lossless-format file (FLAC/WAV) scores strictly higher than a
\* lossy-format file (MP3) with the same bit depth and sample rate, whatever
\* the two bitrates are within the supported range.
C23_LosslessBeatsLossy ==
    (/\ last.kind = "scores"
     /\ last.x.ext \in {".flac", ".wav"}
     /\ last.y.ext = ".mp3"
     /\ last.x.bits = last.y.bits
     /\ last.x.sample_rate = last.y.sample_rate)
        => Greater(last.sx, last.sy)

\* the test's pair the other way round in bitrate and size: FLAC at 128 kbps
\* and 5 MB against MP3 at 900 kbps and 6 MB, scored by the first generation
C23_Witness ==
    /\ last.kind = "scores"
    /\ last.scorer = "Ref"
    /\ last.x = [ext |-> ".flac", bits |-> 16, sample_rate |-> 44100,
                 bitrate |-> 128000, file_size |-> 5000000]
    /\ last.y = [ext |-> ".mp3", bits |-> 16, sample_rate |-> 44100,
                 bitrate |-> 900000, file_size |-> 6000000]
    /\ last.sx = <<21644228>>
    /\ last.sy = <<11645000>>

----------------------------------------------------------------------------
----------------------------------------------------------------------------
\* C25: the fingerprint history only grows: no step of any generation, be
\* it the prune at startup, an upgrade, a quarantine, a quit or the end of
\* a run, removes a recorded (fingerprint, external id) pair, from the
\* working catalog or from the committed one.
C25_HistoryOnlyGrows ==
    [][/\ cur.known_fingerprints \subseteq cur'.known_fingerprints
       /\ db.known_fingerprints \subseteq db'.known_fingerprints]_vars

\* the prune at startup has deleted the only row that carried a fingerprint
\* and the pair recorded for it is still there
C25_Witness ==
    /\ last.kind = "startup"
    /\ \E k \in db.known_fingerprints :
           /\ \E r \in Range(prev.files) : r.fingerprint = k[1]
           /\ \A r \in Range(cur.files) : r.fingerprint # k[1]
----------------------------------------------------------------------------
\* the album rows of catalog a are rows of catalog b, and b has one row per
\* release id
AlbumsKept(a, b) ==
    /\ Range(a.albums) \subseteq Range(b.albums)
    /\ \A i, j \in DOMAIN b.albums :
          b.albums[i][1] = b.albums[j][1] => i = j

\* C26: an album row is created the first time its release id is seen and
\* is never changed or removed afterwards, in the working catalog or in the
\* committed one: no step (processing with another title/artist/date for
\* the release, dedup, prune, quit, end of run) changes or deletes a row.
C26_AlbumRowsAreStable ==
    [][AlbumsKept(cur, cur') /\ AlbumsKept(db, db')]_vars

\* release L2 was first seen with one set of album data, then seen again
\* with another, and the stored row is the first
C26_Witness ==
    /\ last.kind = "file"
    /\ last.file.fp = FB
    /\ \E i \in DOMAIN last.out :
          last.out[i].decision \notin {"seen", "gone", "nomatch"}
          /\ last.out[i].new # NoPath /\ last.out[i].new[2] = "L2"
    /\ <<"L2", "m1">> \in Range(cur.albums)
----------------------------------------------------------------------------
\* C27: with the dry-run flag set, a step of a run changes no media file:
\* the volume is as before and no move, copy, rename or tag write is
\* performed by the step that processes a file.
C27_DryRunTouchesNoFile ==
    [][(dry_run /\ ProcessStep) => (fs' = fs /\ moves' = <<>>)]_vars
----------------------------------------------------------------------------
\* the name written by the k-th relocation of a step was free when it was
\* written: no file was there before the step, or an earlier relocation of
\* the step had moved that file away
FreeWhenWritten(before, log, k) ==
    \/ log[k][3] \notin DOMAIN before
    \/ \E j \in 1..(k - 1) : log[j][1] = "move" /\ log[j][2] = log[k][3]

\* C28: relocation is collision-safe: a step that processes a file never
\* moves or copies onto an existing file, every file of the volume is
\* still there afterwards under some name, and a file that already is at
\* its destination is not relocated.
C28_RelocationIsCollisionSafe ==
    [][ProcessStep =>
         \A k \in DOMAIN moves' :
            moves'[k][1] \in {"move", "copy"} =>
               /\ FreeWhenWritten(fs, moves', k)
               /\ moves'[k][2] # moves'[k][3]
               /\ ~(/\ moves'[k][2][1] = moves'[k][3][1]
                    /\ moves'[k][2][2] = moves'[k][3][2]
                    /\ moves'[k][2][3] = moves'[k][3][3])]_vars
----------------------------------------------------------------------------
\* C29: whenever control has left a prompt (by a valid answer, by quit, or
\* by an exception raised while input() waits), the preview player started
\* for the prompt has been terminated and player_process cleared: no file
\* is processed and the process does not end with a player running.
C29_PlayerStoppedAfterPrompt ==
    (last.kind = "prompt" /\ last.pc \in {"loop", "exited"})
        => last.player_process = "None"
----------------------------------------------------------------------------
\* the file at p has vanished since the scan, cannot be fingerprinted, or
\* its lookup raises
TransientFailure(p) ==
    \/ p \notin DOMAIN fs
    \/ fs[p].fp \in {NoFp, FE}

\* C30: a transient failure on one file (vanished since the scan, no
\* fingerprint, failed lookup) makes the step skip that file: the catalog,
\* working and committed, and the volume are as before, the run is not
\* aborted and the other files of the scan list are still to be processed.
C30_TransientFailureSkipsTheFile ==
    [][(ProcessStep /\ TransientFailure(last'.path))
       => /\ cur' = cur /\ db' = db /\ fs' = fs
          /\ phase' = "run"
          /\ todo' = todo \ {last'.path}]_vars
----------------------------------------------------------------------------
\* the candidates the index of catalog c yields for fingerprint g that have
\* no row in the catalog
Dangling(v, c, g) ==
    {p \in Range(Owners(c.index, get_blocks(v, g))) : ~HasRow(c, p)}

\* C31: a path of the Blocking Index that has no catalog row is passed
\* over by the matcher: the path returned, if any, has a row, and a
\* candidate with a row that is similar enough is still found behind a
\* dangling one.  A10 keeps no Blocking Index of paths.
C31_DanglingCandidateIsNoMatch ==
    variant # "A10" =>
        \A g \in Fingerprints :
            LET m == MatchPath(variant, cur, g)
            IN  /\ m # NoPath => HasRow(cur, m)
                /\ Matching(variant, cur, g, SIMILARITY_ASK(variant)) # {}
                       => m # NoPath

\* the index yields a dangling path first and a path with a row after it,
\* and the latter is returned
C31_Witness ==
    /\ variant # "A10"
    /\ \E g \in Fingerprints :
          LET owners == Owners(cur.index, get_blocks(variant, g))
              m == MatchPath(variant, cur, g)
          IN  /\ m # NoPath
              /\ HasRow(cur, m)
              /\ \E j, k \in DOMAIN owners :
                    /\ j < k /\ owners[k] = m
                    /\ owners[j] \in Dangling(variant, cur, g)
----------------------------------------------------------------------------
\* the k-th selected album of the step accepted the file
Accepted(out, k) ==
    /\ out[k].decision \in {"unique", "keep_new"}
    /\ out[k].new # NoPath
    /\ Dir(out[k].new) = "lib"

\* the step reached the album loop of A11: one decision per selected album
AlbumStep ==
    /\ ProcessStep
    /\ variant = "A11"
    /\ ~dry_run
    /\ last'.out # <<>>
    /\ \A k \in DOMAIN last'.out :
          last'.out[k].decision \in {"unique", "keep_new", "keep_old"}

\* C32: a file assigned to k >= 1 selected albums is copied into every
\* accepted selection but the last and moved only at the last one: no
\* relocation of the original follows its move, an album that accepts the
\* file before the last selection gets a copy, the last one gets the
\* original, and each accepting album ends with a file of its own and a
\* catalog row of its own for it.
C32_CopiedToAllButTheLastAlbum ==
    [][AlbumStep =>
         LET p == last'.path
             out == last'.out
             ops == SelectSeq(moves', LAMBDA o :
                        o[1] \in {"move", "copy"} /\ o[2] = p)
         IN  /\ \A k \in DOMAIN ops : ops[k][1] = "move" => k = Len(ops)
             /\ \A k \in DOMAIN out :
                   Accepted(out, k) =>
                      /\ <<IF k = Len(out) THEN "move" ELSE "copy",
                            p, out[k].new>> \in Range(ops)
                      /\ out[k].new \in DOMAIN fs'
                      /\ \E r \in Range(cur'.files) :
                            /\ r.path = out[k].new
                            /\ r.album_id = out[k].new[2]
                            /\ r.processed = 1
             /\ \A j, k \in DOMAIN out :
                   (Accepted(out, j) /\ Accepted(out, k) /\ j # k)
                      => out[j].new # out[k].new]_vars

\* two albums were selected and both accepted the file: the first holds a
\* copy, the second the original
C32_Witness ==
    /\ variant = "A11"
    /\ ~dry_run
    /\ last.kind = "file"
    /\ Len(last.out) = 2
    /\ Accepted(last.out, 1) /\ Accepted(last.out, 2)
    /\ <<"copy", last.path, last.out[1].new>> \in Range(moves)
    /\ <<"move", last.path, last.out[2].new>> \in Range(moves)
-----------------------------------------------------------------------------
\* a step that constructs the manager: it starts a run or fails
ConstructStep ==
    /\ phase = "down"
    /\ last'.kind \in {"startup", "failed"}
    /\ (phase' = "run" \/ runs' = runs + 1)

\* C33: constructing the manager against a database file that has no catalog
\* tables yet completes without error (the run starts, the tables exist
\* afterwards) and removes nothing: the committed catalog is as before.
C33_FreshConstructionSucceeds ==
    [][(ConstructStep /\ ~schema)
       => (last'.kind = "startup" /\ phase' = "run" /\ schema' /\ db' = db)]_vars

-----------------------------------------------------------------------------
\* a row of a canonical Track: processed, not tagged as a duplicate, and
\* describing a file that is on disk outside the duplicates folder (the
\* row a discarded file leaves under the path it was scanned at is not
\* counted)
CanonicalRow(v, r) ==
    /\ r.processed = 1 \/ v = "A03"
    /\ r.is_duplicate # 1
    /\ r.path \in DOMAIN fs
    /\ Dir(r.path) # "dup"

\* the first run has just ended, outside dry-run, on a mounted music folder
\* into which MaxFiles files of one fingerprint and pairwise distinct scores
\* had been put; the lookup identifies the fingerprint with a single release,
\* so that no selection is asked of the user
OneRunOverTakes ==
    /\ last.kind = "end" /\ steady /\ runs = 1 /\ ~dry_run
    /\ root = "mounted" /\ dropped = MaxFiles
    /\ \E fp \in {g \in Fingerprints : Len(Lookup(g).cands) = 1} :
           \A p \in DOMAIN fs : fs[p].fp = fp
    /\ Cardinality({fs[p].score : p \in DOMAIN fs}) = MaxFiles

BestScore == CHOOSE s \in {fs[p].score : p \in DOMAIN fs} :
                 \A q \in DOMAIN fs : fs[q].score <= s

\* C34: after one complete run over files that all have the same
\* fingerprint and pairwise distinct scores, whatever the order of the scan,
\* the committed catalog has exactly one canonical row for them, that row is
\* the one of the file with the highest score, which is on disk outside the
\* duplicates folder, and every other file is in the duplicates folder.
C34_BestOfIdenticalTakesWins ==
    OneRunOverTakes =>
        /\ \E r \in Range(db.files) :
              /\ CanonicalRow(variant, r)
              /\ fs[r.path].score = BestScore
              /\ \A q \in Range(db.files) : CanonicalRow(variant, q) => q = r
        /\ \A p \in DOMAIN fs : fs[p].score # BestScore => Dir(p) = "dup"

-----------------------------------------------------------------------------
\* row r is recorded for a file that was discarded to quarantine: it is
\* tagged as a duplicate, or keyed by a path of the duplicates folder, or
\* keyed by the path its file was scanned at while the file is now in the
\* duplicates folder under that base name
DiscardedRow(r) ==
    \/ r.is_duplicate = 1
    \/ Dir(r.path) = "dup"
    \/ /\ r.path \notin DOMAIN fs
       /\ \E q \in DOMAIN fs :
              Dir(q) = "dup" /\ q[3] = r.path[3] /\ q[4] = r.path[4]

\* C35: the row a newly scanned file is compared with (the old side of each
\* outcome of the step), where the catalog held it before the step, is not
\* a row recorded for a file discarded to quarantine.
C35_ComparedWithCanonicalOnly ==
    [][ProcessStep =>
         \A k \in DOMAIN last'.out :
            last'.out[k].old # NoPath =>
               \A r \in RowsAt(cur, last'.out[k].old) : ~DiscardedRow(r)]_vars

-----------------------------------------------------------------------------
\* outcome o of the step is an automatic decision between the new file and
\* a catalogued file of the same score: no duplicate prompt was shown and
\* the row the file was compared with carried the score of the new file
EqualScores(o) ==
    /\ o.old # NoPath
    /\ Times(last'.asked, "dedup") = 0
    /\ last'.file.score # NoNum
    /\ \E r \in RowsAt(cur, o.old) : r.score = last'.file.score

\* C36: when a file is matched automatically with a catalogued file of the
\* same score, the catalogued file is kept: the decision is keep-old, the
\* catalogued file is not sent to the duplicates folder, and outside
\* dry-run the new file is.
C36_EqualScoresKeepTheOld ==
    [][ProcessStep =>
         \A k \in DOMAIN last'.out :
            EqualScores(last'.out[k]) =>
               /\ last'.out[k].decision = "keep_old"
               /\ last'.out[k].old \notin SentToDups(moves')
               /\ (~dry_run /\ k = Len(last'.out)) =>
                      last'.path \in SentToDups(moves')]_vars

-----------------------------------------------------------------------------
\* C37: in the generations that keep a fingerprint history, every recorded
\* (fingerprint, id) with a non-empty fingerprint is identifiable:
\* _identify_locally of the fingerprint returns the ratio 1.0 and an id the
\* history records for that fingerprint.
C37_HistoryIsIdentifiable ==
    variant \in {"A10", "A11"} =>
        \A k \in cur.known_fingerprints :
            k[1] # NoFp =>
                \E res \in {identify_locally(variant, cur, k[1])} :
                    /\ res[2][1] = res[2][2]
                    /\ <<k[1], res[1]>> \in cur.known_fingerprints

-----------------------------------------------------------------------------
\* the step in which the user chose skip at a prompt shown for the file:
\* the step ends with the outcome skip and the run goes on
SkipStep ==
    /\ ProcessStep
    /\ last'.asked # <<>>
    /\ last'.out # <<>>
    /\ last'.out[Len(last'.out)].decision = "skip"
    /\ phase' = "run"

\* C38: when the user chooses skip for a file, nothing is changed for it:
\* the volume is as before, no move, copy or tag write is performed, the
\* catalog of the connection (rows, index, albums, fingerprint history and
\* its chunks) is as before, and nothing but writes that were already
\* pending becomes durable.
C38_SkipChangesNothing ==
    [][SkipStep =>
         /\ fs' = fs
         /\ moves' = <<>>
         /\ cur' = cur
         /\ db' \in {db, cur}]_vars

-----------------------------------------------------------------------------
\* C39: a run terminates and handles each file of its scan list exactly
\* once: while a run goes on the list built at startup changes only by the
\* step that processes one of its files, which takes that file out and adds
\* none (what the run created or moved is not scanned again); the run ends
\* only with the list exhausted or because the user quit; and a run that
\* has started always ends.
C39_RunHandlesEachFileOnce ==
    /\ [][(phase = "run" /\ todo' # todo)
           => /\ ProcessStep
              /\ phase' = "run" => todo' = todo \ {last'.path}
              /\ phase' = "down" => todo' = {}]_vars
    /\ [][(phase = "run" /\ phase' = "down") => (todo = {} \/ QuitStep)]_vars
    /\ (phase = "run") ~> (phase = "down")

====
